---- MODULE Spec2Model ----
(***************************************************************************)
(* Owned and borrowed OS handles and sockets (std::os::windows::io).       *)
(*                                                                         *)
(* The wrappers are modelled as owner records; the operating system is a   *)
(* table of resources (free / open / closed) with a counter of the close   *)
(* calls it has received for every raw value.  Each operation of           *)
(* handle.rs and socket.rs is one action.  Rust's move semantics appear    *)
(* as the life-cycle field `st` of an owner: a value that was moved out,   *)
(* dropped or forgotten can no longer be used.                             *)
(***************************************************************************)
EXTENDS Integers, Sequences, FiniteSets, TLC

\* ------------------------------------------------------------------ bounds
\* number of owned wrappers that are ever constructed in one behaviour
MaxOwners == 2
\* number of resources the operating system can hand out
MaxId == 2
\* number of borrowed wrappers alive at once, over all owners
MaxViews == 2
\* the largest code point classified, past the end of the table's range
MaxWc == 131327
\* number of reference and smart-pointer layers around a value
MaxLayers == 1

\* --------------------------------------------------------------- constants
\* `handle.is_null()`: the null pointer
NULL == 0
\* sys::c::INVALID_HANDLE_VALUE, the all-ones pointer, -1
INVALID_HANDLE_VALUE == -1
\* sys::c::INVALID_SOCKET, all bits set: -1 in two's complement
INVALID_SOCKET == -1

Owners == 1..MaxOwners
\* raw values that denote a resource of the operating system
RealIds == 1..MaxId
\* every value a RawHandle / RawSocket can have in the model
RawVals == {INVALID_HANDLE_VALUE, NULL} \cup RealIds

HandleKinds == {"OwnedHandle", "HandleOrNull", "HandleOrInvalid"}

\* The owned wrappers that are not sentinel-checked wrappers.
OwnedKinds == {"OwnedHandle", "OwnedSocket"}

VARIABLES
    owner,        \* owner[o]: the o-th owned wrapper ever constructed
    views,        \* views[o]: the borrowed wrappers that borrow from owner o
    res,          \* res[id]: the resource's state in the operating system
    closeCalls,   \* closeCalls[r]: CloseHandle / closesocket calls issued with r
    heldHandles,  \* raw handles whose close obligation the caller holds
    heldSockets,  \* raw sockets whose close obligation the caller holds
    misuse,       \* an operation was applied to a resource that is not OPEN
    last,         \* the last operation and what it returned
    wc,           \* the code point given to the classification function
    out,          \* what the classification function returned for it
    build         \* the configuration the library was compiled with

\* The state of the handle and socket wrappers, and that of the
\* classification of a code point.
handleVars == <<owner, views, res, closeCalls, heldHandles, heldSockets, misuse, last>>

punctVars == <<wc, out>>

vars == <<handleVars, punctVars, build>>

\* ---------------------------------------------------------------- structs
\* A slot of `owner` no wrapper has been constructed in yet.
\* raw: the wrapper's field (`handle` / `socket`).  The other fields are
\* history: orig is the raw value the wrapper was constructed from, src the
\* owner it was duplicated from (0: none), closed the raw values its
\* destructor has passed to the close call.
NoOwner == [st |-> "none", kind |-> "none", raw |-> NULL, orig |-> NULL,
            src |-> 0, closed |-> <<>>]

\* What `last` holds when an operation returns nothing of interest.
\* op: the operation; o: the owner it acted on; res, ret: its result and the
\* raw value in it; new: the owner it constructed; calls: the OS calls it
\* made; failed: those of them the system answered with failure; closes: the
\* close calls the system received during it; via: the layers the operation
\* was called through, outermost first.
NoLast == [op |-> "none", o |-> 0, res |-> "none", ret |-> NULL, new |-> 0,
           calls |-> <<>>, failed |-> {}, closes |-> 0, via |-> <<>>]

\* The configurations of a build.  debug_assertions: cfg(debug_assertions),
\* which compiles the debug_assert! checks in; uwp: cfg(target_vendor = "uwp").
Builds == [debug_assertions : BOOLEAN, uwp : BOOLEAN]

\* The build of a development profile for the desktop target.
DevBuild == [debug_assertions |-> TRUE, uwp |-> FALSE]

\* What `out` holds before the classification function has been called.
\* ret: the value returned; reads: the indices of `table` read, in order;
\* panicked: an index was out of bounds; done: the function has returned.
NoOut == [ret |-> 0, reads |-> <<>>, panicked |-> FALSE, done |-> FALSE]

\* The slot the next constructed wrapper takes.
NextOwner == IF \E o \in Owners : owner[o].st = "none"
             THEN CHOOSE o \in Owners :
                      /\ owner[o].st = "none"
                      /\ \A p \in Owners : owner[p].st = "none" => o <= p
             ELSE 0

\* The identifier the operating system gives to the next resource it opens.
\* An identifier is given once: it names one resource for the whole run.
FreshId == IF \E i \in RealIds : res[i] = "free"
           THEN CHOOSE i \in RealIds :
                    /\ res[i] = "free"
                    /\ \A j \in RealIds : res[j] = "free" => i <= j
           ELSE 0

Live(o) == owner[o].st = "live"

\* `OwnedHandle { handle }`, FromRawHandle for OwnedHandle
from_raw_handle(handle) == [raw |-> handle]

\* AsRawHandle for OwnedHandle / BorrowedHandle: `self.handle`
as_raw_handle(self) == self.raw

\* BorrowedHandle::borrow_raw: `Self { handle, _phantom }`
borrow_raw(handle) == [raw |-> handle]

\* ------------------------------------------------------- operating system
\* What reaches the operating system: a resource is opened for the caller,
\* a close call (CloseHandle / closesocket) is issued, or a raw value is read
\* and used (as_raw, as_handle, duplicate).
EvOpen(id) == [e |-> "open", id |-> id]
EvClose(id) == [e |-> "close", id |-> id]
EvUse(id) == [e |-> "use", id |-> id]

RECURSIVE ResAfter(_, _)
ResAfter(rs, evs) ==
    IF evs = <<>> THEN rs
    ELSE LET ev == Head(evs) IN
         ResAfter(IF ev.id \in RealIds /\ ev.e = "open" /\ rs[ev.id] = "free"
                  THEN [rs EXCEPT ![ev.id] = "open"]
                  ELSE IF ev.id \in RealIds /\ ev.e = "close" /\ rs[ev.id] = "open"
                  THEN [rs EXCEPT ![ev.id] = "closed"]
                  ELSE rs,
                  Tail(evs))

RECURSIVE ClosesIn(_, _)
ClosesIn(evs, r) ==
    IF evs = <<>> THEN 0
    ELSE (IF Head(evs).e = "close" /\ Head(evs).id = r THEN 1 ELSE 0)
         + ClosesIn(Tail(evs), r)

\* Some event of evs is a close or a use of a resource that is not OPEN.
RECURSIVE MisuseIn(_, _)
MisuseIn(rs, evs) ==
    IF evs = <<>> THEN FALSE
    ELSE LET ev == Head(evs) IN
         \/ ev.e # "open" /\ ev.id \in RealIds /\ rs[ev.id] # "open"
         \/ MisuseIn(ResAfter(rs, <<ev>>), Tail(evs))

Os(evs) ==
    /\ res' = ResAfter(res, evs)
    /\ closeCalls' = [r \in RawVals |-> closeCalls[r] + ClosesIn(evs, r)]
    /\ misuse' = (misuse \/ MisuseIn(res, evs))

\* The close events of a destructor that issues close calls on `toClose`.
Closes(toClose) == [i \in 1..Len(toClose) |-> EvClose(toClose[i])]

\* A new wrapper w of `kind`, constructed from the raw value orig (as a
\* duplicate of owner src, if src # 0), takes the next slot.
Construct(kind, w, orig, src) ==
    [owner EXCEPT ![NextOwner] =
        [st |-> "live", kind |-> kind, raw |-> w.raw, orig |-> orig,
         src |-> src, closed |-> <<>>]]

\* The sum of f over the members of S from -1 up to i.
RECURSIVE SumTo(_, _, _)
SumTo(f, S, i) ==
    IF i < INVALID_HANDLE_VALUE THEN 0
    ELSE (IF i \in S THEN f[i] ELSE 0) + SumTo(f, S, i - 1)

\* The sum of f over S, a set of raw values or of owners.
SumOver(f, S) == SumTo(f, S, IF MaxId > MaxOwners THEN MaxId ELSE MaxOwners)

\* The record of an operation, with the close calls counted during it.
Did(rec) ==
    [rec EXCEPT !.closes = SumOver(closeCalls', RawVals) - SumOver(closeCalls, RawVals)]

\* ------------------------------------------------------------------- Drop
\* Mutants of the destructor: it forgets the close call; it closes twice.
drop_OwnedHandle_NoClose(self) == <<>>

drop_OwnedHandle_Twice(self) == <<self.raw, self.raw>>

\* impl Drop for OwnedHandle: `let _ = CloseHandle(self.handle)`.
\* The raw values the destructor passes to the close call.
drop_OwnedHandle(self) == <<self.raw>>

\* impl Drop for OwnedSocket: `let _ = closesocket(self.socket)`
drop_OwnedSocket(self) == <<self.raw>>

\* What CloseHandle / closesocket can answer when called with raw: success
\* (TRUE) or failure; it fails on null and on what is not an open resource.
CloseAnswers(raw) ==
    IF raw = NULL \/ (raw \in RealIds /\ res[raw] # "open") THEN {FALSE} ELSE BOOLEAN

\* Mutant of the destructor: the result of the close call is unwrapped.
drop_OwnedHandle_result_Unwrap(self, closed) ==
    IF closed THEN "returned" ELSE "panicked"

\* impl Drop for OwnedHandle, given the answer `closed` of CloseHandle: how
\* the destructor ends.  `let _ =` discards the answer.
drop_OwnedHandle_result(self, closed) == "returned"

\* impl Drop for OwnedSocket, given the answer `closed` of closesocket
drop_OwnedSocket_result(self, closed) == "returned"

\* Mutant: a sentinel wrapper that goes out of scope closes nothing.
drop_SentinelWrapper_NoClose(self) == <<>>

\* `pub struct HandleOrNull(OwnedHandle)`, `pub struct HandleOrInvalid(OwnedHandle)`:
\* the types have no Drop of their own, so when one goes out of scope its
\* field, the OwnedHandle, is dropped, whatever value it holds.
drop_SentinelWrapper(self) == drop_OwnedHandle(self)

\* An OwnedHandle, HandleOrNull or HandleOrInvalid goes out of scope.
DropHandle(o) ==
    /\ Live(o)
    /\ owner[o].kind \in HandleKinds
    /\ views[o] = <<>>
    /\ LET toClose == IF owner[o].kind = "OwnedHandle"
                      THEN drop_OwnedHandle(owner[o])
                      ELSE drop_SentinelWrapper(owner[o])
       IN
       /\ Os(Closes(toClose))
       /\ owner' = [owner EXCEPT ![o].st = "dropped", ![o].closed = @ \o toClose]
    /\ \E closed \in CloseAnswers(owner[o].raw) :
           last' = Did([NoLast EXCEPT !.op = "drop", !.o = o,
                           !.res = drop_OwnedHandle_result(owner[o], closed),
                           !.failed = IF closed THEN {} ELSE {"CloseHandle"}])
    /\ UNCHANGED <<views, heldHandles, heldSockets, punctVars, build>>

\* An OwnedSocket goes out of scope.
DropSocket(o) ==
    /\ Live(o)
    /\ owner[o].kind = "OwnedSocket"
    /\ views[o] = <<>>
    /\ LET toClose == drop_OwnedSocket(owner[o]) IN
       /\ Os(Closes(toClose))
       /\ owner' = [owner EXCEPT ![o].st = "dropped", ![o].closed = @ \o toClose]
    /\ \E closed \in CloseAnswers(owner[o].raw) :
           last' = Did([NoLast EXCEPT !.op = "drop", !.o = o,
                           !.res = drop_OwnedSocket_result(owner[o], closed),
                           !.failed = IF closed THEN {} ELSE {"closesocket"}])
    /\ UNCHANGED <<views, heldHandles, heldSockets, punctVars, build>>

\* ------------------------------------------- sentinel-checked construction
\* What a foreign function can return as a handle: null, -1 (a failure
\* sentinel or the pseudo handle of the current process), or a handle the
\* system has just opened for the caller.
FfiReturns == {NULL, INVALID_HANDLE_VALUE} \cup (IF FreshId = 0 THEN {} ELSE {FreshId})

\* HandleOrNull::from_raw_handle: `Self(OwnedHandle::from_raw_handle(handle))`
HandleOrNull_from_raw_handle(handle) == from_raw_handle(handle)

\* HandleOrInvalid::from_raw_handle
HandleOrInvalid_from_raw_handle(handle) == from_raw_handle(handle)

\* A foreign call that signals failure by null returns r.
FfiHandleOrNull ==
    \E r \in FfiReturns :
        /\ NextOwner # 0
        /\ owner' = Construct("HandleOrNull", HandleOrNull_from_raw_handle(r), r, 0)
        /\ Os(<<EvOpen(r)>>)
        /\ last' = Did([NoLast EXCEPT !.op = "HandleOrNull::from_raw_handle",
                                  !.o = NextOwner, !.ret = r, !.new = NextOwner])
        /\ UNCHANGED <<views, heldHandles, heldSockets, punctVars, build>>

\* A foreign call that signals failure by INVALID_HANDLE_VALUE returns r.
FfiHandleOrInvalid ==
    \E r \in FfiReturns :
        /\ NextOwner # 0
        /\ owner' = Construct("HandleOrInvalid", HandleOrInvalid_from_raw_handle(r), r, 0)
        /\ Os(<<EvOpen(r)>>)
        /\ last' = Did([NoLast EXCEPT !.op = "HandleOrInvalid::from_raw_handle",
                                  !.o = NextOwner, !.ret = r, !.new = NextOwner])
        /\ UNCHANGED <<views, heldHandles, heldSockets, punctVars, build>>

\* Mutants of the null check: the mem::forget is missing; the wrong
\* sentinel is compared.
HandleOrNull_try_from_NoForget(handle_or_null) ==
    IF handle_or_null.raw = NULL
    THEN [ok |-> FALSE, err |-> "NullHandleError", value |-> handle_or_null,
          forgot |-> FALSE]
    ELSE [ok |-> TRUE, err |-> "none", value |-> handle_or_null, forgot |-> FALSE]

HandleOrNull_try_from_WrongSentinel(handle_or_null) ==
    IF handle_or_null.raw = INVALID_HANDLE_VALUE
    THEN [ok |-> FALSE, err |-> "NullHandleError", value |-> handle_or_null,
          forgot |-> TRUE]
    ELSE [ok |-> TRUE, err |-> "none", value |-> handle_or_null, forgot |-> FALSE]

\* Mutant of the null check: -1 is rejected as well as null.
HandleOrNull_try_from_BothSentinels(handle_or_null) ==
    IF handle_or_null.raw \in {NULL, INVALID_HANDLE_VALUE}
    THEN [ok |-> FALSE, err |-> "NullHandleError", value |-> handle_or_null,
          forgot |-> TRUE]
    ELSE [ok |-> TRUE, err |-> "none", value |-> handle_or_null, forgot |-> FALSE]

\* TryFrom<HandleOrNull> for OwnedHandle::try_from.  `forgot` says whether
\* the inner OwnedHandle was passed to mem::forget; a value that is neither
\* returned nor forgotten is dropped when the function returns.
HandleOrNull_try_from(handle_or_null) ==
    LET owned_handle == handle_or_null IN
    IF owned_handle.raw = NULL
    THEN [ok |-> FALSE, err |-> "NullHandleError", value |-> owned_handle,
          forgot |-> TRUE]
    ELSE [ok |-> TRUE, err |-> "none", value |-> owned_handle, forgot |-> FALSE]

\* Mutants of the INVALID_HANDLE_VALUE check, as for the null check.
HandleOrInvalid_try_from_NoForget(handle_or_invalid) ==
    IF handle_or_invalid.raw = INVALID_HANDLE_VALUE
    THEN [ok |-> FALSE, err |-> "InvalidHandleError", value |-> handle_or_invalid,
          forgot |-> FALSE]
    ELSE [ok |-> TRUE, err |-> "none", value |-> handle_or_invalid, forgot |-> FALSE]

HandleOrInvalid_try_from_WrongSentinel(handle_or_invalid) ==
    IF handle_or_invalid.raw = NULL
    THEN [ok |-> FALSE, err |-> "InvalidHandleError", value |-> handle_or_invalid,
          forgot |-> TRUE]
    ELSE [ok |-> TRUE, err |-> "none", value |-> handle_or_invalid, forgot |-> FALSE]

\* TryFrom<HandleOrInvalid> for OwnedHandle::try_from
HandleOrInvalid_try_from(handle_or_invalid) ==
    LET owned_handle == handle_or_invalid IN
    IF owned_handle.raw = INVALID_HANDLE_VALUE
    THEN [ok |-> FALSE, err |-> "InvalidHandleError", value |-> owned_handle,
          forgot |-> TRUE]
    ELSE [ok |-> TRUE, err |-> "none", value |-> owned_handle, forgot |-> FALSE]

\* The effect of a checked conversion with result r on the wrapper in slot o.
Converted(o, r, op) ==
    /\ IF r.ok
       THEN /\ owner' = [owner EXCEPT ![o].kind = "OwnedHandle", ![o].raw = r.value.raw]
            /\ Os(<<>>)
       ELSE IF r.forgot
       THEN /\ owner' = [owner EXCEPT ![o].st = "forgotten"]
            /\ Os(<<>>)
       ELSE LET toClose == drop_OwnedHandle(r.value) IN
            /\ owner' = [owner EXCEPT ![o].st = "dropped", ![o].closed = @ \o toClose]
            /\ Os(Closes(toClose))
    /\ last' = Did([NoLast EXCEPT !.op = op, !.o = o, !.ret = r.value.raw,
                              !.res = IF r.ok THEN "Ok" ELSE r.err])
    /\ UNCHANGED <<views, heldHandles, heldSockets, punctVars, build>>

TryFromHandleOrNull(o) ==
    /\ Live(o)
    /\ owner[o].kind = "HandleOrNull"
    /\ Converted(o, HandleOrNull_try_from(owner[o]), "HandleOrNull::try_from")

TryFromHandleOrInvalid(o) ==
    /\ Live(o)
    /\ owner[o].kind = "HandleOrInvalid"
    /\ Converted(o, HandleOrInvalid_try_from(owner[o]), "HandleOrInvalid::try_from")

\* ---------------------------------------------------------------- into_raw
\* Mutants of into_raw: the mem::forget is missing, so `self` is dropped.
into_raw_handle_NoForget(self) == [ret |-> self.raw, forgot |-> FALSE]

into_raw_socket_NoForget(self) == [ret |-> self.raw, forgot |-> FALSE]

\* IntoRawHandle for OwnedHandle::into_raw_handle
into_raw_handle(self) == [ret |-> self.raw, forgot |-> TRUE]

\* IntoRawSocket for OwnedSocket::into_raw_socket
into_raw_socket(self) == [ret |-> self.raw, forgot |-> TRUE]

\* The effect of into_raw with result r on the wrapper in slot o.
Released(o, r, toClose) ==
    /\ IF r.forgot
       THEN /\ owner' = [owner EXCEPT ![o].st = "released"]
            /\ Os(<<>>)
       ELSE /\ owner' = [owner EXCEPT ![o].st = "dropped", ![o].closed = @ \o toClose]
            /\ Os(Closes(toClose))
    /\ last' = Did([NoLast EXCEPT !.op = "into_raw", !.o = o, !.ret = r.ret])
    /\ UNCHANGED <<views, punctVars, build>>

IntoRawHandle(o) ==
    /\ Live(o)
    /\ owner[o].kind = "OwnedHandle"
    /\ views[o] = <<>>
    /\ LET r == into_raw_handle(owner[o]) IN
       /\ Released(o, r, drop_OwnedHandle(owner[o]))
       /\ heldHandles' = heldHandles \cup {r.ret}
    /\ UNCHANGED heldSockets

IntoRawSocket(o) ==
    /\ Live(o)
    /\ owner[o].kind = "OwnedSocket"
    /\ views[o] = <<>>
    /\ LET r == into_raw_socket(owner[o]) IN
       /\ Released(o, r, drop_OwnedSocket(owner[o]))
       /\ heldSockets' = heldSockets \cup {r.ret}
    /\ UNCHANGED heldHandles

\* ---------------------------------------------------------------- from_raw
\* FromRawSocket for OwnedSocket::from_raw_socket: `Self { socket }`
from_raw_socket(socket) == [raw |-> socket]

\* Mutant: from_raw_socket checks nothing in any build.
from_raw_socket_panics_Never(socket) == FALSE

\* FromRawSocket for OwnedSocket::from_raw_socket:
\* `debug_assert_ne!(socket, INVALID_SOCKET)`, compiled in only with
\* cfg(debug_assertions).  Without it the wrapper is constructed with the
\* value given: a value outside the type's valid range, which the compiled
\* code stores as it is.
from_raw_socket_panics(socket) == build.debug_assertions /\ socket = INVALID_SOCKET

\* An operation on owner o, called with the raw value ret, ends in a panic
\* before it has done anything.
Panicked(op, o, ret) ==
    /\ Os(<<>>)
    /\ last' = Did([NoLast EXCEPT !.op = op, !.o = o, !.ret = ret,
                              !.res = "panicked"])
    /\ UNCHANGED <<owner, views, heldHandles, heldSockets, punctVars, build>>

\* The caller wraps again a handle whose close obligation it holds.
FromRawHandle ==
    \E r \in heldHandles :
        /\ NextOwner # 0
        /\ owner' = Construct("OwnedHandle", from_raw_handle(r), r, 0)
        /\ heldHandles' = heldHandles \ {r}
        /\ Os(<<>>)
        /\ last' = Did([NoLast EXCEPT !.op = "from_raw", !.o = NextOwner, !.ret = r,
                                  !.new = NextOwner])
        /\ UNCHANGED <<views, heldSockets, punctVars, build>>

\* The caller wraps again a socket whose close obligation it holds.
FromRawSocket ==
    \E r \in heldSockets :
        /\ NextOwner # 0
        /\ r # INVALID_SOCKET
        /\ owner' = Construct("OwnedSocket", from_raw_socket(r), r, 0)
        /\ heldSockets' = heldSockets \ {r}
        /\ Os(<<>>)
        /\ last' = Did([NoLast EXCEPT !.op = "from_raw", !.o = NextOwner, !.ret = r,
                                  !.new = NextOwner])
        /\ UNCHANGED <<views, heldHandles, punctVars, build>>

\* A foreign call that returns a socket, or INVALID_SOCKET for failure,
\* returns r, and the caller passes r to from_raw_socket.
FfiSocket ==
    \E r \in {INVALID_SOCKET} \cup (IF FreshId = 0 THEN {} ELSE {FreshId}) :
        IF from_raw_socket_panics(r)
        THEN Panicked("OwnedSocket::from_raw_socket", 0, r)
        ELSE /\ NextOwner # 0
             /\ owner' = Construct("OwnedSocket", from_raw_socket(r), r, 0)
             /\ Os(<<EvOpen(r)>>)
             /\ last' = Did([NoLast EXCEPT !.op = "OwnedSocket::from_raw_socket",
                                       !.o = NextOwner, !.ret = r, !.new = NextOwner])
             /\ UNCHANGED <<views, heldHandles, heldSockets, punctVars, build>>

\* The system opens a socket for the caller, who wraps it at once.
NewSocket ==
    /\ NextOwner # 0
    /\ FreshId # 0
    /\ owner' = Construct("OwnedSocket", from_raw_socket(FreshId), FreshId, 0)
    /\ Os(<<EvOpen(FreshId)>>)
    /\ last' = Did([NoLast EXCEPT !.op = "from_raw", !.o = NextOwner, !.ret = FreshId,
                              !.new = NextOwner])
    /\ UNCHANGED <<views, heldHandles, heldSockets, punctVars, build>>

\* ------------------------------------------------------------------ borrow
\* Mutant of as_handle: the borrowed wrapper does not hold the owner's handle.
as_handle_Null(self) == borrow_raw(NULL)

\* AsHandle for OwnedHandle::as_handle
as_handle(self) == borrow_raw(as_raw_handle(self))

\* AsRawSocket for OwnedSocket / BorrowedSocket: `self.socket`
as_raw_socket(self) == self.raw

\* BorrowedSocket::borrow_raw: `Self { socket, _phantom }`
borrow_raw_socket(socket) == [raw |-> socket]

\* Mutant: borrow_raw has no assertion.
borrow_raw_socket_panics_Never(socket) == FALSE

\* BorrowedSocket::borrow_raw: `assert!(socket != INVALID_SOCKET)`, which is
\* compiled in in every build.
borrow_raw_socket_panics(socket) == socket = INVALID_SOCKET

\* AsSocket for OwnedSocket::as_socket
as_socket(self) == borrow_raw_socket(as_raw_socket(self))

\* AsHandle for BorrowedHandle::as_handle: `*self`, a copy of the wrapper
BorrowedHandle_as_handle(self) == [raw |-> self.raw]

\* AsSocket for BorrowedSocket::as_socket: `*self`
BorrowedSocket_as_socket(self) == [raw |-> self.raw]

\* Mutant of the end of a borrowed wrapper's life: it closes what it borrows.
drop_BorrowedHandle_Closes(self) == <<self.raw>>

\* The raw values passed to the close call when a BorrowedHandle or a
\* BorrowedSocket goes out of scope: the types are Copy and have no Drop.
drop_BorrowedHandle(self) == <<>>

\* The number of borrowed wrappers in existence.
TotalViews == SumOver([o \in Owners |-> Len(views[o])], Owners)

\* A borrowed wrapper of owner o is made; it lives until DropView.
AsHandle(o) ==
    /\ Live(o)
    /\ owner[o].kind = "OwnedHandle"
    /\ TotalViews < MaxViews
    /\ views' = [views EXCEPT ![o] = Append(@, as_handle(owner[o]))]
    /\ Os(<<EvUse(as_raw_handle(owner[o]))>>)
    /\ last' = Did([NoLast EXCEPT !.op = "as_handle", !.o = o,
                              !.ret = as_raw_handle(as_handle(owner[o]))])
    /\ UNCHANGED <<owner, heldHandles, heldSockets, punctVars, build>>

AsSocket(o) ==
    /\ Live(o)
    /\ owner[o].kind = "OwnedSocket"
    /\ TotalViews < MaxViews
    /\ IF borrow_raw_socket_panics(as_raw_socket(owner[o]))
       THEN Panicked("as_socket", o, as_raw_socket(owner[o]))
       ELSE /\ views' = [views EXCEPT ![o] = Append(@, as_socket(owner[o]))]
            /\ Os(<<EvUse(as_raw_socket(owner[o]))>>)
            /\ last' = Did([NoLast EXCEPT !.op = "as_socket", !.o = o,
                                      !.ret = as_raw_socket(as_socket(owner[o]))])
            /\ UNCHANGED <<owner, heldHandles, heldSockets, punctVars, build>>

\* The caller makes a borrowed socket with borrow_raw, from the raw value of
\* the OwnedSocket o or from the INVALID_SOCKET a failed call returned.
BorrowRawSocket(o) ==
    /\ Live(o)
    /\ owner[o].kind = "OwnedSocket"
    /\ TotalViews < MaxViews
    /\ \E r \in {as_raw_socket(owner[o]), INVALID_SOCKET} :
           IF borrow_raw_socket_panics(r)
           THEN Panicked("BorrowedSocket::borrow_raw", o, r)
           ELSE /\ views' = [views EXCEPT ![o] = Append(@, borrow_raw_socket(r))]
                /\ Os(<<EvUse(r)>>)
                /\ last' = Did([NoLast EXCEPT !.op = "BorrowedSocket::borrow_raw",
                                          !.o = o, !.ret = r])
                /\ UNCHANGED <<owner, heldHandles, heldSockets, punctVars, build>>

\* A borrowed wrapper of owner o is copied (Copy, or as_handle / as_socket
\* on the borrowed wrapper itself).
CopyView(o) ==
    /\ views[o] # <<>>
    /\ TotalViews < MaxViews
    /\ LET v == views[o][1]
           copy == IF owner[o].kind = "OwnedSocket"
                   THEN BorrowedSocket_as_socket(v)
                   ELSE BorrowedHandle_as_handle(v)
       IN
       /\ views' = [views EXCEPT ![o] = Append(@, copy)]
       /\ Os(<<>>)
       /\ last' = Did([NoLast EXCEPT !.op = "copy_view", !.o = o,
                                 !.ret = as_raw_handle(copy)])
    /\ UNCHANGED <<owner, heldHandles, heldSockets, punctVars, build>>

\* ------------------------------------------------------- sharing layers
\* The types AsHandle and AsSocket are implemented for by forwarding.
Layers == {"&", "&mut", "Arc", "Rc", "Box"}

\* The stacks of at least one and at most MaxLayers layers.
LayerStacks == UNION {[1..n -> Layers] : n \in 1..MaxLayers}

\* What as_handle / as_socket of a value gives: the borrowed wrapper and the
\* OS calls made to get it.
Borrowed(view) == [view |-> view, calls |-> <<>>]

\* Mutant: as_handle of an Arc duplicates the handle to borrow the copy.
Layer_as_handle_ArcClones(layer, inner) ==
    IF layer = "Arc"
    THEN [view |-> borrow_raw(NULL), calls |-> Append(inner.calls, "DuplicateHandle")]
    ELSE inner

\* AsHandle for &T, &mut T, Arc<T>, Rc<T>, Box<T>, given the result `inner`
\* of as_handle on the T inside.
Layer_as_handle(layer, inner) ==
    CASE layer = "&" -> inner        \* T::as_handle(self)
      [] layer = "&mut" -> inner     \* T::as_handle(self)
      [] layer = "Arc" -> inner      \* (**self).as_handle()
      [] layer = "Rc" -> inner       \* (**self).as_handle()
      [] layer = "Box" -> inner      \* (**self).as_handle()

\* AsSocket for &T, &mut T, Arc<T>, Rc<T>, Box<T>
Layer_as_socket(layer, inner) ==
    CASE layer = "&" -> inner        \* T::as_socket(self)
      [] layer = "&mut" -> inner     \* T::as_socket(self)
      [] layer = "Arc" -> inner      \* (**self).as_socket()
      [] layer = "Rc" -> inner       \* (**self).as_socket()
      [] layer = "Box" -> inner      \* (**self).as_socket()

\* as_handle called on owner `self` wrapped in the layers of `stack`: each
\* layer's as_handle is given the result of the one inside it.
RECURSIVE Via_as_handle(_, _)
Via_as_handle(stack, self) ==
    IF stack = <<>> THEN Borrowed(as_handle(self))
    ELSE Layer_as_handle(Head(stack), Via_as_handle(Tail(stack), self))

RECURSIVE Via_as_socket(_, _)
Via_as_socket(stack, self) ==
    IF stack = <<>> THEN Borrowed(as_socket(self))
    ELSE Layer_as_socket(Head(stack), Via_as_socket(Tail(stack), self))

\* The effect of as_handle / as_socket with result r, called on owner o
\* through the layers of stack: the borrowed wrapper returned is used for
\* one operation and goes out of scope.
BorrowedVia(o, stack, r, op) ==
    /\ Os(<<EvUse(as_raw_handle(r.view))>> \o Closes(drop_BorrowedHandle(r.view)))
    /\ last' = Did([NoLast EXCEPT !.op = op, !.o = o, !.calls = r.calls,
                              !.ret = as_raw_handle(r.view), !.via = stack])
    /\ UNCHANGED <<owner, views, heldHandles, heldSockets, punctVars, build>>

\* as_handle is called on the OwnedHandle o through layers around it.
AsHandleVia(o, stack) ==
    /\ Live(o)
    /\ owner[o].kind = "OwnedHandle"
    /\ BorrowedVia(o, stack, Via_as_handle(stack, owner[o]), "as_handle")

\* as_socket is called on the OwnedSocket o through layers around it.
AsSocketVia(o, stack) ==
    /\ Live(o)
    /\ owner[o].kind = "OwnedSocket"
    /\ ~borrow_raw_socket_panics(as_raw_socket(owner[o]))
    /\ BorrowedVia(o, stack, Via_as_socket(stack, owner[o]), "as_socket")

\* A borrowed wrapper goes out of scope.
DropView(o) ==
    /\ views[o] # <<>>
    /\ views' = [views EXCEPT ![o] = Tail(@)]
    /\ Os(Closes(drop_BorrowedHandle(Head(views[o]))))
    /\ last' = Did([NoLast EXCEPT !.op = "drop_view", !.o = o])
    /\ UNCHANGED <<owner, heldHandles, heldSockets, punctVars, build>>

\* --------------------------------------------------------------- duplicate
\* What DuplicateHandle can answer: failure, or the handle of a resource it
\* has just opened (one that refers to the same object as the source).
DuplicateHandleOutcomes ==
    {[ok |-> FALSE, ret |-> NULL]}
        \cup (IF FreshId = 0 THEN {} ELSE {[ok |-> TRUE, ret |-> FreshId]})

\* Mutant of duplicate: the source handle is wrapped instead of `ret`.
duplicate_SameHandle(self, os) ==
    IF self.raw = NULL
    THEN [ok |-> TRUE, value |-> from_raw_handle(self.raw), calls |-> <<>>,
          opened |-> <<>>]
    ELSE IF ~os.ok
    THEN [ok |-> FALSE, value |-> from_raw_handle(NULL),
          calls |-> <<"DuplicateHandle">>, opened |-> <<>>]
    ELSE [ok |-> TRUE, value |-> from_raw_handle(self.raw),
          calls |-> <<"DuplicateHandle">>, opened |-> <<os.ret>>]

\* Mutant of duplicate: DuplicateHandle is called for a null handle too.
duplicate_NoNullCase(self, os) ==
    IF ~os.ok
    THEN [ok |-> FALSE, value |-> from_raw_handle(NULL),
          calls |-> <<"DuplicateHandle">>, opened |-> <<>>]
    ELSE [ok |-> TRUE, value |-> from_raw_handle(os.ret),
          calls |-> <<"DuplicateHandle">>, opened |-> <<os.ret>>]

\* BorrowedHandle::duplicate, given the answer `os` of DuplicateHandle.
\* calls: the OS calls made; opened: the resources they opened.
duplicate(self, os) ==
    LET handle == as_raw_handle(self) IN
    IF handle = NULL
    THEN [ok |-> TRUE, value |-> from_raw_handle(handle), calls |-> <<>>,
          opened |-> <<>>]
    ELSE IF ~os.ok
    THEN [ok |-> FALSE, value |-> from_raw_handle(NULL),
          calls |-> <<"DuplicateHandle">>, opened |-> <<>>]
    ELSE [ok |-> TRUE, value |-> from_raw_handle(os.ret),
          calls |-> <<"DuplicateHandle">>, opened |-> <<os.ret>>]

\* BorrowedHandle::try_clone_to_owned
try_clone_to_owned(self, os) == duplicate(self, os)

\* Mutant of try_clone: DuplicateHandle is called on the owner's handle
\* directly, without the null case of the borrowed wrapper's duplicate.
try_clone_Direct(self, os) ==
    IF ~os.ok
    THEN [ok |-> FALSE, value |-> from_raw_handle(NULL),
          calls |-> <<"DuplicateHandle">>, opened |-> <<>>]
    ELSE [ok |-> TRUE, value |-> from_raw_handle(os.ret),
          calls |-> <<"DuplicateHandle">>, opened |-> <<os.ret>>]

\* OwnedHandle::try_clone
try_clone(self, os) == try_clone_to_owned(as_handle(self), os)

Opens(opened) == [i \in 1..Len(opened) |-> EvOpen(opened[i])]

\* The calls of `calls` that DuplicateHandle's answer `os` makes fail.
DuplicateHandleFailed(os, calls) ==
    {calls[i] : i \in {j \in 1..Len(calls) : calls[j] = "DuplicateHandle" /\ ~os.ok}}

\* The effect of a duplication of owner o's handle with result r, when the
\* calls in `failed` have failed.
Duplicated(o, src, r, kind, op, failed) ==
    /\ r.ok => NextOwner # 0
    /\ owner' = IF r.ok THEN Construct(kind, r.value, r.value.raw, o) ELSE owner
    /\ Os(<<EvUse(src)>> \o Opens(r.opened))
    /\ last' = Did([NoLast EXCEPT !.op = op, !.o = o, !.calls = r.calls,
                              !.failed = failed,
                              !.res = IF r.ok THEN "Ok" ELSE "Err",
                              !.ret = r.value.raw,
                              !.new = IF r.ok THEN NextOwner ELSE 0])
    /\ UNCHANGED <<views, heldHandles, heldSockets, punctVars, build>>

\* try_clone_to_owned on a borrowed handle of owner o
TryCloneToOwned(o) ==
    /\ views[o] # <<>>
    /\ owner[o].kind = "OwnedHandle"
    /\ \E os \in DuplicateHandleOutcomes :
           LET r == try_clone_to_owned(views[o][1], os) IN
           Duplicated(o, as_raw_handle(views[o][1]), r,
                      "OwnedHandle", "try_clone_to_owned",
                      DuplicateHandleFailed(os, r.calls))

\* try_clone on the owned handle o
TryClone(o) ==
    /\ Live(o)
    /\ owner[o].kind = "OwnedHandle"
    /\ \E os \in DuplicateHandleOutcomes :
           LET r == try_clone(owner[o], os) IN
           Duplicated(o, as_raw_handle(owner[o]), r, "OwnedHandle", "try_clone",
                      DuplicateHandleFailed(os, r.calls))

\* -------------------------------------------------------- socket duplicate
\* WSAGetLastError values: the two that make try_clone_to_owned fall back
\* to a socket without WSA_FLAG_NO_HANDLE_INHERIT, and one that does not.
WsaErrors == {"WSAEPROTOTYPE", "WSAEINVAL", "WSAEMFILE"}

\* What WSASocketW can return: INVALID_SOCKET, or a socket just opened.
WSASocketWReturns == {INVALID_SOCKET} \cup (IF FreshId = 0 THEN {} ELSE {FreshId})

\* The answers of the OS calls one try_clone_to_owned may make:
\* dup: WSADuplicateSocketW succeeds; s1, err1: the first WSASocketW and the
\* WSAGetLastError after it; s2: the second WSASocketW; sni: set_no_inherit
\* (SetHandleInformation) succeeds.
\* Nothing is asked after a failed WSADuplicateSocketW or a successful
\* first WSASocketW, so the later answers have their default value there.
SocketOutcomes ==
    LET answers(dup, s1, err1, s2, sni) ==
            [dup |-> dup, s1 |-> s1, err1 |-> err1, s2 |-> s2, sni |-> sni]
    IN {answers(FALSE, INVALID_SOCKET, "WSAEMFILE", INVALID_SOCKET, FALSE)}
       \cup {answers(TRUE, s1, "WSAEMFILE", INVALID_SOCKET, FALSE) :
                 s1 \in WSASocketWReturns \ {INVALID_SOCKET}}
       \cup {answers(TRUE, INVALID_SOCKET, err1, s2, sni) :
                 err1 \in WsaErrors, s2 \in WSASocketWReturns, sni \in BOOLEAN}

\* An answer is drawn only for a call that is made: the answers of the
\* calls that `calls` does not hold have their default value.
Unasked(os, calls) ==
    LET made == {calls[i] : i \in 1..Len(calls)} IN
    /\ "WSASocketW(NO_HANDLE_INHERIT)" \notin made => os.s1 = INVALID_SOCKET
    /\ "WSAGetLastError" \notin made => os.err1 = "WSAEMFILE"
    /\ "WSASocketW" \notin made => os.s2 = INVALID_SOCKET
    /\ "SetHandleInformation" \notin made => ~os.sni

\* The calls of `calls` that the answers `os` make fail.
SocketFailed(os, calls) ==
    LET fails(c) == \/ c = "WSADuplicateSocketW" /\ ~os.dup
                    \/ c = "WSASocketW(NO_HANDLE_INHERIT)" /\ os.s1 = INVALID_SOCKET
                    \/ c = "WSASocketW" /\ os.s2 = INVALID_SOCKET
                    \/ c = "SetHandleInformation" /\ ~os.sni
    IN {calls[i] : i \in {j \in 1..Len(calls) : fails(calls[j])}}

\* OwnedSocket::set_no_inherit, given the answer of SetHandleInformation:
\* cvt(SetHandleInformation(..)) with cfg(not(target_vendor = "uwp")), and
\* Err(Unsupported) without a call to the system on UWP.
set_no_inherit(self, os) == IF build.uwp THEN FALSE ELSE os.sni

\* The OS calls OwnedSocket::set_no_inherit makes.
set_no_inherit_calls == IF build.uwp THEN <<>> ELSE <<"SetHandleInformation">>

\* Mutant of the socket duplication: when the first WSASocketW succeeds, the
\* source socket is wrapped instead of the new one.
socket_try_clone_to_owned_SameSocket(self, os) ==
    IF os.dup /\ os.s1 # INVALID_SOCKET
    THEN [ok |-> TRUE, err |-> "none", value |-> from_raw_socket(self.raw),
          calls |-> <<"WSADuplicateSocketW", "WSASocketW(NO_HANDLE_INHERIT)">>,
          opened |-> <<os.s1>>, dropped |-> <<>>]
    ELSE [ok |-> FALSE, err |-> "WSADuplicateSocketW",
          value |-> from_raw_socket(NULL),
          calls |-> <<"WSADuplicateSocketW">>, opened |-> <<>>, dropped |-> <<>>]

\* Mutant of the socket duplication: a failed WSADuplicateSocketW is tried
\* once more before the error is returned.
socket_try_clone_to_owned_Retry(self, os) ==
    IF ~os.dup
    THEN [ok |-> FALSE, err |-> "WSADuplicateSocketW",
          value |-> from_raw_socket(NULL),
          calls |-> <<"WSADuplicateSocketW", "WSADuplicateSocketW">>,
          opened |-> <<>>, dropped |-> <<>>]
    ELSE IF os.s1 # INVALID_SOCKET
    THEN [ok |-> TRUE, err |-> "none", value |-> from_raw_socket(os.s1),
          calls |-> <<"WSADuplicateSocketW", "WSASocketW(NO_HANDLE_INHERIT)">>,
          opened |-> <<os.s1>>, dropped |-> <<>>]
    ELSE [ok |-> FALSE, err |-> "WSAEMFILE", value |-> from_raw_socket(NULL),
          calls |-> <<"WSADuplicateSocketW", "WSASocketW(NO_HANDLE_INHERIT)",
                      "WSAGetLastError">>,
          opened |-> <<>>, dropped |-> <<>>]

\* Mutant of the socket duplication: when set_no_inherit fails the new
\* socket is forgotten instead of dropped.
socket_try_clone_to_owned_Leaks(self, os) ==
    LET c0 == <<"WSADuplicateSocketW">>
        c1 == Append(c0, "WSASocketW(NO_HANDLE_INHERIT)")
        c1e == Append(c1, "WSAGetLastError")
        c2 == Append(c1e, "WSASocketW")
        none == from_raw_socket(NULL)
    IN
    IF ~os.dup
    THEN [ok |-> FALSE, err |-> "WSADuplicateSocketW", value |-> none,
          calls |-> c0, opened |-> <<>>, dropped |-> <<>>]
    ELSE IF os.s1 # INVALID_SOCKET
    THEN [ok |-> TRUE, err |-> "none", value |-> from_raw_socket(os.s1),
          calls |-> c1, opened |-> <<os.s1>>, dropped |-> <<>>]
    ELSE IF os.err1 # "WSAEPROTOTYPE" /\ os.err1 # "WSAEINVAL"
    THEN [ok |-> FALSE, err |-> os.err1, value |-> none,
          calls |-> c1e, opened |-> <<>>, dropped |-> <<>>]
    ELSE IF os.s2 = INVALID_SOCKET
    THEN [ok |-> FALSE, err |-> "last_error", value |-> none,
          calls |-> Append(c2, "WSAGetLastError"), opened |-> <<>>,
          dropped |-> <<>>]
    ELSE IF ~set_no_inherit(from_raw_socket(os.s2), os)
    THEN [ok |-> FALSE, err |-> "set_no_inherit", value |-> none,
          calls |-> c2 \o set_no_inherit_calls, opened |-> <<os.s2>>,
          dropped |-> <<>>]
    ELSE [ok |-> TRUE, err |-> "none", value |-> from_raw_socket(os.s2),
          calls |-> c2 \o set_no_inherit_calls, opened |-> <<os.s2>>,
          dropped |-> <<>>]

\* Mutant of the socket duplication: the fallback socket is returned without
\* a call of set_no_inherit.
socket_try_clone_to_owned_NoSetNoInherit(self, os) ==
    LET c0 == <<"WSADuplicateSocketW">>
        c1 == Append(c0, "WSASocketW(NO_HANDLE_INHERIT)")
        c1e == Append(c1, "WSAGetLastError")
        c2 == Append(c1e, "WSASocketW")
        none == from_raw_socket(NULL)
    IN
    IF ~os.dup
    THEN [ok |-> FALSE, err |-> "WSADuplicateSocketW", value |-> none,
          calls |-> c0, opened |-> <<>>, dropped |-> <<>>]
    ELSE IF os.s1 # INVALID_SOCKET
    THEN [ok |-> TRUE, err |-> "none", value |-> from_raw_socket(os.s1),
          calls |-> c1, opened |-> <<os.s1>>, dropped |-> <<>>]
    ELSE IF os.err1 # "WSAEPROTOTYPE" /\ os.err1 # "WSAEINVAL"
    THEN [ok |-> FALSE, err |-> os.err1, value |-> none,
          calls |-> c1e, opened |-> <<>>, dropped |-> <<>>]
    ELSE IF os.s2 = INVALID_SOCKET
    THEN [ok |-> FALSE, err |-> "last_error", value |-> none,
          calls |-> Append(c2, "WSAGetLastError"), opened |-> <<>>,
          dropped |-> <<>>]
    ELSE [ok |-> TRUE, err |-> "none", value |-> from_raw_socket(os.s2),
          calls |-> c2, opened |-> <<os.s2>>, dropped |-> <<>>]

\* Mutant of the socket duplication: WSASocketW is called a second time
\* after any error of the first call.
socket_try_clone_to_owned_AnyError(self, os) ==
    LET c0 == <<"WSADuplicateSocketW">>
        c1 == Append(c0, "WSASocketW(NO_HANDLE_INHERIT)")
        c2 == Append(Append(c1, "WSAGetLastError"), "WSASocketW")
        c3 == c2 \o set_no_inherit_calls
        none == from_raw_socket(NULL)
    IN
    IF ~os.dup
    THEN [ok |-> FALSE, err |-> "WSADuplicateSocketW", value |-> none,
          calls |-> c0, opened |-> <<>>, dropped |-> <<>>]
    ELSE IF os.s1 # INVALID_SOCKET
    THEN [ok |-> TRUE, err |-> "none", value |-> from_raw_socket(os.s1),
          calls |-> c1, opened |-> <<os.s1>>, dropped |-> <<>>]
    ELSE IF os.s2 = INVALID_SOCKET
    THEN [ok |-> FALSE, err |-> "last_error", value |-> none,
          calls |-> Append(c2, "WSAGetLastError"), opened |-> <<>>,
          dropped |-> <<>>]
    ELSE IF ~set_no_inherit(from_raw_socket(os.s2), os)
    THEN [ok |-> FALSE, err |-> "set_no_inherit", value |-> none,
          calls |-> c3, opened |-> <<os.s2>>,
          dropped |-> <<from_raw_socket(os.s2)>>]
    ELSE [ok |-> TRUE, err |-> "none", value |-> from_raw_socket(os.s2),
          calls |-> c3, opened |-> <<os.s2>>, dropped |-> <<>>]

\* BorrowedSocket::try_clone_to_owned.  calls: the OS calls made, in order;
\* opened: the sockets they opened; dropped: the OwnedSocket values that go
\* out of scope inside the function.
socket_try_clone_to_owned(self, os) ==
    LET c0 == <<"WSADuplicateSocketW">>
        c1 == Append(c0, "WSASocketW(NO_HANDLE_INHERIT)")
        c1e == Append(c1, "WSAGetLastError")
        c2 == Append(c1e, "WSASocketW")
        c2e == Append(c2, "WSAGetLastError")
        c3 == c2 \o set_no_inherit_calls
        none == from_raw_socket(NULL)
    IN
    IF ~os.dup
    THEN [ok |-> FALSE, err |-> "WSADuplicateSocketW", value |-> none,
          calls |-> c0, opened |-> <<>>, dropped |-> <<>>]
    ELSE IF os.s1 # INVALID_SOCKET
    THEN [ok |-> TRUE, err |-> "none", value |-> from_raw_socket(os.s1),
          calls |-> c1, opened |-> <<os.s1>>, dropped |-> <<>>]
    ELSE IF os.err1 # "WSAEPROTOTYPE" /\ os.err1 # "WSAEINVAL"
    THEN [ok |-> FALSE, err |-> os.err1, value |-> none,
          calls |-> c1e, opened |-> <<>>, dropped |-> <<>>]
    ELSE IF os.s2 = INVALID_SOCKET
    THEN [ok |-> FALSE, err |-> "last_error", value |-> none,
          calls |-> c2e, opened |-> <<>>, dropped |-> <<>>]
    ELSE LET socket == from_raw_socket(os.s2) IN
         IF ~set_no_inherit(socket, os)
         THEN [ok |-> FALSE, err |-> "set_no_inherit", value |-> none,
               calls |-> c3, opened |-> <<os.s2>>, dropped |-> <<socket>>]
         ELSE [ok |-> TRUE, err |-> "none", value |-> socket,
               calls |-> c3, opened |-> <<os.s2>>, dropped |-> <<>>]

\* OwnedSocket::try_clone
socket_try_clone(self, os) == socket_try_clone_to_owned(as_socket(self), os)

\* The effect of a duplication of owner o's socket with result r, when the
\* calls in `failed` have failed.
SocketDuplicated(o, src, r, op, failed) ==
    /\ (r.ok \/ r.dropped # <<>>) => NextOwner # 0
    /\ Len(r.dropped) <= 1
    /\ LET toClose == IF r.dropped = <<>> THEN <<>>
                      ELSE drop_OwnedSocket(r.dropped[1]) IN
       /\ owner' = IF r.ok THEN Construct("OwnedSocket", r.value, r.value.raw, o)
                   ELSE IF r.dropped # <<>>
                   THEN [owner EXCEPT ![NextOwner] =
                            [st |-> "dropped", kind |-> "OwnedSocket",
                             raw |-> r.dropped[1].raw,
                             orig |-> r.dropped[1].raw, src |-> 0,
                             closed |-> toClose]]
                   ELSE owner
       /\ Os(<<EvUse(src)>> \o Opens(r.opened) \o Closes(toClose))
    /\ last' = Did([NoLast EXCEPT !.op = op, !.o = o, !.calls = r.calls,
                              !.failed = failed,
                              !.res = IF r.ok THEN "Ok" ELSE r.err,
                              !.ret = r.value.raw,
                              !.new = IF r.ok THEN NextOwner ELSE 0])
    /\ UNCHANGED <<views, heldHandles, heldSockets, punctVars, build>>

\* try_clone_to_owned on a borrowed socket of owner o
SocketTryCloneToOwned(o) ==
    /\ views[o] # <<>>
    /\ owner[o].kind = "OwnedSocket"
    /\ \E os \in SocketOutcomes :
           LET r == socket_try_clone_to_owned(views[o][1], os) IN
           /\ Unasked(os, r.calls)
           /\ SocketDuplicated(o, as_raw_socket(views[o][1]), r,
                               "try_clone_to_owned", SocketFailed(os, r.calls))

\* try_clone on the owned socket o
SocketTryClone(o) ==
    /\ Live(o)
    /\ owner[o].kind = "OwnedSocket"
    /\ IF borrow_raw_socket_panics(as_raw_socket(owner[o]))
       THEN Panicked("try_clone", o, as_raw_socket(owner[o]))
       ELSE \E os \in SocketOutcomes :
                LET r == socket_try_clone(owner[o], os) IN
                /\ Unasked(os, r.calls)
                /\ SocketDuplicated(o, as_raw_socket(owner[o]), r, "try_clone",
                                    SocketFailed(os, r.calls))

\* ------------------------------------------- concrete resource types
\* The types that contain one OwnedHandle / OwnedSocket.
NetKinds == {"TcpStream", "TcpListener", "UdpSocket"}

ConcreteKinds == {"File"} \cup NetKinds

\* fs::File::into_inner().into_inner().into_inner(): the OwnedHandle inside
\* the file is moved out of it.
File_into_inner(file) == [raw |-> file.raw]

\* fs::File::from_inner(from_inner(from_inner(owned))): the file is built
\* around the OwnedHandle moved into it.
File_from_inner(owned) == [raw |-> owned.raw]

\* IntoRawSocket for TcpStream / TcpListener / UdpSocket: into_raw_socket of
\* the OwnedSocket inside.
Net_into_raw_socket(self) == into_raw_socket(self)

\* FromRawSocket for TcpStream / TcpListener / UdpSocket
Net_from_raw_socket(socket) == from_raw_socket(socket)

\* From<fs::File> for OwnedHandle::from.  value: the wrapper returned;
\* dropped: the wrappers that go out of scope inside the function.
OwnedHandle_from(file) == [value |-> File_into_inner(file), dropped |-> <<>>]

\* From<OwnedHandle> for fs::File::from
File_from(owned) == [value |-> File_from_inner(owned), dropped |-> <<>>]

\* Mutant of the conversion to OwnedSocket: the raw socket is read with
\* as_raw_socket, so the stream still owns it and is dropped on return.
OwnedSocket_from_AsRaw(tcp_stream) ==
    [value |-> from_raw_socket(as_raw_socket(tcp_stream)), dropped |-> <<tcp_stream>>]

\* From<TcpStream> for OwnedSocket::from (TcpListener, UdpSocket: the same)
OwnedSocket_from(tcp_stream) ==
    LET r == Net_into_raw_socket(tcp_stream) IN
    [value |-> from_raw_socket(r.ret),
     dropped |-> IF r.forgot THEN <<>> ELSE <<tcp_stream>>]

\* From<OwnedSocket> for TcpStream::from (TcpListener, UdpSocket: the same)
Net_from(owned) ==
    LET r == into_raw_socket(owned) IN
    [value |-> Net_from_raw_socket(r.ret),
     dropped |-> IF r.forgot THEN <<>> ELSE <<owned>>]

\* The system opens a file or a socket and a concrete type wraps it.
NewConcrete(kind) ==
    /\ NextOwner # 0
    /\ FreshId # 0
    /\ owner' = Construct(kind, from_raw_handle(FreshId), FreshId, 0)
    /\ Os(<<EvOpen(FreshId)>>)
    /\ last' = Did([NoLast EXCEPT !.op = "new", !.o = NextOwner, !.ret = FreshId,
                              !.new = NextOwner])
    /\ UNCHANGED <<views, heldHandles, heldSockets, punctVars, build>>

\* The effect of a conversion of the wrapper in slot o with result r: the
\* wrapper returned takes the slot; the close calls of the wrappers dropped
\* inside the conversion are issued.
Moved(o, r, kind, op) ==
    LET toClose == IF r.dropped = <<>> THEN <<>> ELSE drop_OwnedSocket(r.dropped[1]) IN
    /\ Len(r.dropped) <= 1
    /\ owner' = [owner EXCEPT ![o].kind = kind, ![o].raw = r.value.raw,
                              ![o].closed = @ \o toClose]
    /\ Os(Closes(toClose))
    /\ last' = Did([NoLast EXCEPT !.op = op, !.o = o, !.ret = owner[o].raw])
    /\ UNCHANGED <<views, heldHandles, heldSockets, punctVars, build>>

\* OwnedHandle::from(file)
FromFile(o) ==
    /\ Live(o)
    /\ owner[o].kind = "File"
    /\ Moved(o, OwnedHandle_from(owner[o]), "OwnedHandle", "into_owned")

\* File::from(owned)
IntoFile(o) ==
    /\ Live(o)
    /\ owner[o].kind = "OwnedHandle"
    /\ views[o] = <<>>
    /\ Moved(o, File_from(owner[o]), "File", "from_owned")

\* OwnedSocket::from(tcp_stream)
FromNet(o) ==
    /\ Live(o)
    /\ owner[o].kind \in NetKinds
    /\ Moved(o, OwnedSocket_from(owner[o]), "OwnedSocket", "into_owned")

\* TcpStream::from(owned), TcpListener::from(owned), UdpSocket::from(owned)
IntoNet(o, kind) ==
    /\ Live(o)
    /\ owner[o].kind = "OwnedSocket"
    /\ views[o] = <<>>
    /\ Moved(o, Net_from(owner[o]), kind, "from_owned")

\* A concrete type goes out of scope: the wrapper inside it is dropped.
DropConcrete(o) ==
    /\ Live(o)
    /\ owner[o].kind \in ConcreteKinds
    /\ LET toClose == IF owner[o].kind = "File"
                      THEN drop_OwnedHandle(File_into_inner(owner[o]))
                      ELSE drop_OwnedSocket(owner[o])
       IN
       /\ Os(Closes(toClose))
       /\ owner' = [owner EXCEPT ![o].st = "dropped", ![o].closed = @ \o toClose]
    /\ last' = Did([NoLast EXCEPT !.op = "drop", !.o = o])
    /\ UNCHANGED <<views, heldHandles, heldSockets, punctVars, build>>

\* ------------------------------------------------------------- threads
\* OwnedHandle, HandleOrNull, HandleOrInvalid and BorrowedHandle are Send and
\* Sync: a wrapper can be handed to another thread, and borrowed wrappers of
\* one owner can be used by several threads at once.  A thread is what holds
\* a wrapper; the steps of distinct wrappers interleave freely.  The close
\* call of a destructor takes time: it is in flight from BeginDrop to
\* EndDrop (owner[o].st = "closing").

\* A thread reads the raw value through the i-th borrowed wrapper of owner o.
ReadRaw(o, i) ==
    /\ i \in DOMAIN views[o]
    /\ Os(<<>>)
    /\ last' = Did([NoLast EXCEPT !.op = "as_raw", !.o = o,
                              !.ret = as_raw_handle(views[o][i])])
    /\ UNCHANGED <<owner, views, heldHandles, heldSockets, punctVars, build>>

\* The thread that holds the owned wrapper o lets it go out of scope: the
\* destructor issues its close call.
BeginDrop(o) ==
    /\ Live(o)
    /\ owner[o].kind \in OwnedKinds
    /\ views[o] = <<>>
    /\ LET toClose == IF owner[o].kind = "OwnedSocket"
                      THEN drop_OwnedSocket(owner[o])
                      ELSE drop_OwnedHandle(owner[o])
       IN
       /\ owner' = [owner EXCEPT ![o].st = "closing", ![o].closed = @ \o toClose]
       /\ closeCalls' = [r \in RawVals |-> closeCalls[r] + ClosesIn(Closes(toClose), r)]
       /\ misuse' = (misuse \/ MisuseIn(res, Closes(toClose)))
    /\ last' = Did([NoLast EXCEPT !.op = "drop_begin", !.o = o])
    /\ UNCHANGED <<res, views, heldHandles, heldSockets, punctVars, build>>

\* The close call of the destructor of o returns, and the destructor ends.
EndDrop(o) ==
    /\ owner[o].st = "closing"
    /\ owner' = [owner EXCEPT ![o].st = "dropped"]
    /\ res' = ResAfter(res, Closes(owner[o].closed))
    /\ \E closed \in CloseAnswers(owner[o].raw) :
           last' = [NoLast EXCEPT !.op = "drop", !.o = o,
                       !.res = IF owner[o].kind = "OwnedSocket"
                               THEN drop_OwnedSocket_result(owner[o], closed)
                               ELSE drop_OwnedHandle_result(owner[o], closed),
                       !.failed = IF closed THEN {} ELSE {"close"}]
    /\ UNCHANGED <<closeCalls, misuse, views, heldHandles, heldSockets, punctVars, build>>

\* ------------------------------------------------ wctype: punct::is
\* `if wc < 0x20000`
PunctLimit == 131072

\* `const table: [::c_uchar; 4000]`
TableLen == 4000

\* The first 512 entries give, for each page of 256 code points, the number
\* of the 32-byte block of `table` that holds the page's bits.
table ==
    <<18, 16, 19, 20, 21, 22, 23, 24, 25, 26, 27, 28, 29, 30, 31, 32, 33, 16, 16, 34, 35, 16, 36, 37,
      38, 39, 40, 41, 42, 43, 16, 44, 45, 46, 17, 17, 47, 17, 17, 17, 17, 17, 17, 48, 49, 50, 51, 52,
      53, 54, 55, 17, 16, 16, 16, 16, 16, 16, 16, 16, 16, 16, 16, 16, 16, 16, 16, 16, 16, 16, 16, 16,
      16, 16, 16, 16, 16, 56, 16, 16, 16, 16, 16, 16, 16, 16, 16, 16, 16, 16, 16, 16, 16, 16, 16, 16,
      16, 16, 16, 16, 16, 16, 16, 16, 16, 16, 16, 16, 16, 16, 16, 16, 16, 16, 16, 16, 16, 16, 16, 16,
      16, 16, 16, 16, 16, 16, 16, 16, 16, 16, 16, 16, 16, 16, 16, 16, 16, 16, 16, 16, 16, 16, 16, 16,
      16, 16, 16, 16, 16, 16, 16, 16, 16, 16, 16, 16, 16, 16, 16, 16, 16, 16, 16, 16, 57, 16, 58, 59,
      60, 61, 62, 63, 16, 16, 16, 16, 16, 16, 16, 16, 16, 16, 16, 16, 16, 16, 16, 16, 16, 16, 16, 16,
      16, 16, 16, 16, 16, 16, 16, 16, 16, 16, 16, 16, 16, 16, 16, 16, 16, 16, 16, 16, 16, 16, 16, 16,
      16, 16, 16, 16, 16, 16, 16, 16, 64, 16, 16, 16, 16, 16, 16, 16, 16, 16, 16, 16, 16, 16, 16, 16,
      16, 16, 16, 16, 16, 16, 16, 16, 65, 16, 16, 66, 16, 67, 68, 69, 16, 70, 71, 72, 16, 73, 16, 16,
      74, 75, 76, 77, 78, 16, 79, 80, 81, 82, 83, 84, 85, 86, 87, 88, 89, 90, 91, 16, 92, 93, 94, 95,
      16, 16, 16, 16, 96, 16, 16, 16, 16, 16, 16, 16, 16, 16, 16, 16, 16, 16, 16, 16, 97, 16, 16, 16,
      16, 16, 16, 16, 16, 16, 16, 16, 16, 16, 16, 16, 16, 16, 16, 16, 16, 16, 16, 16, 16, 16, 16, 16,
      16, 16, 16, 16, 16, 16, 16, 16, 16, 16, 16, 16, 16, 16, 16, 16, 16, 16, 16, 16, 16, 16, 16, 16,
      16, 16, 98, 99, 16, 16, 100, 101, 16, 16, 16, 16, 16, 16, 16, 16, 16, 16, 16, 16, 16, 16, 16,
      16, 16, 16, 16, 16, 16, 16, 16, 16, 16, 16, 16, 16, 16, 16, 16, 16, 16, 16, 16, 16, 16, 16, 16,
      16, 16, 16, 16, 16, 16, 16, 16, 16, 16, 16, 16, 16, 16, 16, 16, 16, 16, 16, 16, 16, 16, 16, 16,
      16, 16, 16, 16, 16, 16, 16, 16, 16, 16, 16, 16, 16, 102, 16, 16, 16, 16, 16, 16, 16, 16, 16,
      16, 16, 16, 16, 16, 16, 16, 16, 16, 16, 103, 104, 105, 106, 16, 16, 107, 108, 17, 17, 109, 16,
      16, 16, 16, 16, 16, 110, 111, 16, 16, 16, 16, 16, 112, 113, 16, 16, 114, 115, 116, 16, 117,
      118, 119, 17, 17, 17, 120, 121, 122, 123, 124, 16, 16, 16, 16, 16, 0, 0, 0, 0, 0, 0, 0, 0, 0,
      0, 0, 0, 0, 0, 0, 0, 0, 0, 0, 0, 0, 0, 0, 0, 0, 0, 0, 0, 0, 0, 0, 0, 255, 255, 255, 255, 255,
      255, 255, 255, 255, 255, 255, 255, 255, 255, 255, 255, 255, 255, 255, 255, 255, 255, 255, 255,
      255, 255, 255, 255, 255, 255, 255, 255, 0, 0, 0, 0, 254, 255, 0, 252, 1, 0, 0, 248, 1, 0, 0,
      120, 0, 0, 0, 0, 255, 251, 223, 251, 0, 0, 128, 0, 0, 0, 128, 0, 0, 0, 0, 0, 0, 0, 0, 0, 0, 0,
      0, 0, 0, 0, 0, 0, 0, 0, 0, 0, 0, 0, 0, 0, 60, 0, 252, 255, 224, 175, 255, 255, 255, 255, 255,
      255, 255, 255, 255, 255, 223, 255, 255, 255, 255, 255, 32, 64, 176, 0, 0, 0, 0, 0, 0, 0, 0, 0,
      0, 0, 0, 0, 64, 0, 0, 0, 0, 0, 0, 0, 0, 0, 0, 0, 0, 0, 0, 0, 0, 0, 252, 3, 0, 0, 0, 0, 0, 0, 0,
      0, 0, 0, 0, 0, 0, 0, 0, 0, 0, 0, 0, 0, 0, 0, 0, 0, 0, 252, 0, 0, 0, 0, 0, 230, 254, 255, 255,
      255, 0, 64, 73, 0, 0, 0, 0, 0, 24, 0, 255, 255, 0, 216, 0, 0, 0, 0, 0, 0, 0, 1, 0, 60, 0, 0, 0,
      0, 0, 0, 0, 0, 0, 0, 0, 0, 16, 224, 1, 30, 0, 96, 255, 191, 0, 0, 0, 0, 0, 0, 255, 7, 0, 0, 0,
      0, 0, 0, 0, 0, 0, 0, 0, 0, 0, 0, 0, 0, 0, 0, 0, 248, 207, 227, 0, 0, 0, 3, 0, 32, 255, 127, 0,
      0, 0, 78, 0, 0, 0, 0, 0, 0, 0, 0, 0, 0, 0, 0, 0, 0, 8, 0, 7, 252, 0, 0, 0, 0, 0, 0, 0, 0, 0,
      16, 0, 32, 30, 0, 48, 0, 1, 0, 0, 0, 0, 0, 0, 0, 0, 16, 0, 32, 0, 0, 0, 0, 252, 111, 0, 0, 0,
      0, 0, 0, 0, 16, 0, 32, 0, 0, 0, 0, 64, 0, 0, 0, 0, 0, 0, 0, 0, 16, 0, 32, 0, 0, 0, 0, 3, 224,
      0, 0, 0, 0, 0, 0, 0, 16, 0, 32, 0, 0, 0, 0, 253, 0, 0, 0, 0, 0, 0, 0, 0, 0, 0, 32, 0, 0, 0, 0,
      255, 7, 16, 0, 0, 0, 0, 0, 0, 0, 0, 32, 0, 0, 0, 0, 128, 255, 16, 0, 0, 0, 0, 0, 0, 16, 0, 32,
      0, 0, 0, 0, 0, 0, 0, 0, 0, 0, 0, 0, 0, 24, 0, 160, 0, 127, 0, 0, 255, 3, 0, 0, 0, 0, 0, 0, 0,
      0, 0, 4, 0, 0, 0, 0, 16, 0, 0, 0, 0, 0, 0, 128, 0, 128, 192, 223, 0, 12, 0, 0, 0, 0, 0, 0, 0,
      0, 0, 0, 0, 4, 0, 31, 0, 0, 0, 0, 0, 0, 254, 255, 255, 255, 0, 252, 255, 255, 0, 0, 0, 0, 0, 0,
      0, 0, 252, 0, 0, 0, 0, 0, 0, 192, 255, 223, 255, 7, 0, 0, 0, 0, 0, 0, 0, 0, 0, 0, 128, 6, 0,
      252, 0, 0, 0, 0, 0, 0, 0, 0, 0, 192, 0, 0, 0, 0, 0, 0, 0, 0, 0, 0, 0, 8, 0, 0, 0, 0, 0, 0, 0,
      0, 0, 0, 0, 224, 255, 255, 255, 31, 0, 0, 255, 3, 0, 0, 0, 0, 0, 0, 0, 0, 0, 0, 0, 0, 1, 0, 0,
      0, 0, 0, 0, 0, 0, 0, 0, 0, 0, 0, 0, 0, 0, 0, 0, 0, 0, 0, 0, 0, 0, 0, 0, 0, 0, 0, 0, 0, 0, 0, 0,
      0, 0, 0, 0, 0, 0, 0, 0, 0, 0, 96, 0, 0, 1, 0, 0, 24, 0, 0, 0, 0, 0, 0, 0, 0, 0, 56, 0, 0, 0, 0,
      16, 0, 0, 0, 112, 0, 0, 0, 0, 0, 0, 0, 0, 0, 0, 0, 0, 0, 0, 0, 48, 0, 0, 254, 127, 47, 0, 0,
      255, 3, 255, 127, 0, 0, 0, 0, 0, 0, 0, 0, 0, 0, 0, 0, 0, 0, 0, 0, 0, 0, 0, 0, 0, 0, 0, 0, 0, 0,
      0, 0, 0, 0, 0, 0, 0, 0, 0, 0, 0, 14, 49, 0, 0, 0, 0, 0, 0, 0, 0, 0, 0, 0, 0, 0, 0, 0, 0, 0, 0,
      196, 255, 255, 255, 255, 0, 0, 0, 192, 0, 0, 0, 0, 0, 0, 0, 0, 1, 0, 224, 159, 0, 0, 0, 0, 127,
      63, 255, 127, 0, 0, 0, 0, 0, 0, 0, 0, 0, 0, 0, 0, 0, 0, 16, 0, 16, 0, 0, 252, 255, 255, 255,
      31, 0, 0, 0, 0, 0, 12, 0, 0, 0, 0, 0, 0, 64, 0, 12, 240, 0, 0, 0, 0, 0, 0, 128, 248, 0, 0, 0,
      0, 0, 0, 0, 192, 0, 0, 0, 0, 0, 0, 0, 0, 255, 0, 255, 255, 255, 33, 144, 3, 0, 0, 0, 0, 0, 0,
      0, 0, 0, 0, 0, 0, 0, 0, 0, 0, 0, 0, 0, 0, 0, 0, 0, 0, 255, 255, 255, 255, 127, 0, 224, 251, 0,
      0, 0, 0, 0, 0, 0, 0, 0, 0, 0, 0, 0, 0, 0, 0, 0, 0, 0, 0, 0, 0, 0, 160, 3, 224, 0, 224, 0, 224,
      0, 96, 128, 248, 255, 255, 255, 252, 255, 255, 255, 255, 255, 127, 223, 255, 241, 127, 255,
      127, 0, 0, 255, 255, 255, 255, 0, 0, 255, 255, 255, 255, 1, 0, 123, 3, 208, 193, 175, 66, 0,
      12, 31, 188, 255, 255, 0, 0, 0, 0, 0, 14, 255, 255, 255, 255, 255, 255, 255, 255, 255, 255,
      255, 255, 255, 255, 255, 255, 255, 255, 127, 0, 0, 0, 255, 7, 0, 0, 255, 255, 255, 255, 255,
      255, 255, 255, 255, 255, 63, 0, 0, 0, 0, 0, 0, 252, 255, 255, 255, 255, 255, 255, 255, 255,
      255, 255, 255, 255, 255, 255, 255, 255, 207, 255, 255, 255, 63, 255, 255, 255, 255, 255, 255,
      255, 255, 255, 255, 255, 255, 255, 0, 0, 0, 0, 0, 0, 0, 0, 0, 0, 0, 0, 0, 0, 0, 0, 0, 0, 0, 0,
      0, 0, 0, 0, 0, 0, 0, 0, 224, 135, 3, 254, 0, 0, 0, 0, 0, 0, 0, 0, 0, 0, 0, 0, 0, 0, 1, 128, 0,
      0, 0, 0, 0, 0, 0, 0, 0, 0, 0, 0, 0, 0, 0, 0, 255, 255, 255, 255, 255, 127, 255, 255, 255, 255,
      0, 0, 0, 0, 0, 0, 255, 255, 255, 251, 255, 255, 255, 255, 255, 255, 255, 255, 255, 255, 15, 0,
      255, 255, 255, 255, 255, 255, 255, 255, 255, 255, 255, 255, 255, 255, 255, 255, 255, 255, 255,
      255, 255, 255, 255, 255, 255, 255, 63, 0, 0, 0, 255, 15, 30, 255, 255, 255, 1, 252, 193, 224,
      0, 0, 0, 0, 0, 0, 0, 0, 0, 0, 0, 30, 1, 0, 0, 0, 0, 0, 0, 0, 0, 0, 0, 8, 0, 0, 0, 0, 0, 0, 0,
      0, 0, 0, 0, 0, 0, 0, 0, 0, 0, 0, 255, 255, 0, 0, 0, 0, 255, 255, 255, 255, 15, 0, 0, 0, 255,
      255, 255, 127, 255, 255, 255, 255, 255, 255, 255, 255, 255, 255, 255, 255, 255, 255, 255, 255,
      255, 255, 255, 255, 255, 255, 255, 255, 255, 255, 255, 255, 0, 0, 0, 0, 0, 0, 0, 0, 0, 0, 0, 0,
      0, 0, 0, 0, 0, 0, 0, 0, 0, 0, 0, 0, 255, 255, 255, 255, 255, 255, 255, 255, 0, 0, 0, 0, 0, 0,
      0, 0, 0, 0, 0, 0, 0, 0, 0, 0, 0, 0, 255, 255, 255, 255, 255, 255, 127, 0, 0, 0, 0, 0, 0, 192,
      0, 224, 0, 0, 0, 0, 0, 0, 0, 0, 0, 0, 0, 128, 15, 112, 0, 0, 0, 0, 0, 0, 0, 0, 0, 0, 0, 0, 0,
      0, 255, 0, 255, 255, 127, 0, 3, 0, 0, 0, 0, 0, 0, 0, 0, 0, 0, 0, 0, 6, 0, 0, 0, 0, 0, 0, 0, 0,
      0, 0, 0, 0, 0, 0, 64, 0, 0, 0, 0, 15, 255, 3, 0, 0, 0, 0, 0, 0, 240, 0, 0, 0, 0, 0, 0, 0, 0, 0,
      16, 192, 0, 0, 255, 255, 3, 23, 0, 0, 0, 0, 0, 248, 0, 0, 0, 0, 8, 128, 0, 0, 0, 0, 0, 0, 0, 0,
      0, 0, 8, 0, 255, 63, 0, 192, 0, 0, 0, 0, 0, 0, 0, 0, 0, 0, 0, 0, 0, 0, 0, 240, 0, 0, 128, 3, 0,
      0, 0, 0, 0, 0, 0, 128, 2, 0, 0, 192, 0, 0, 67, 0, 0, 0, 0, 0, 0, 0, 0, 0, 0, 0, 0, 8, 0, 0, 0,
      0, 0, 0, 0, 0, 0, 0, 0, 0, 0, 0, 0, 0, 0, 56, 0, 0, 1, 0, 0, 0, 0, 0, 0, 0, 0, 0, 0, 0, 0, 0,
      0, 0, 0, 0, 0, 0, 0, 0, 0, 0, 0, 0, 0, 0, 0, 0, 0, 0, 0, 0, 0, 0, 0, 0, 0, 0, 0, 0, 0, 0, 0, 0,
      0, 0, 0, 0, 0, 0, 0, 0, 0, 0, 0, 0, 0, 0, 0, 0, 0, 128, 0, 0, 0, 0, 0, 2, 0, 0, 0, 0, 0, 0, 0,
      0, 0, 0, 0, 0, 0, 0, 0, 0, 252, 255, 3, 0, 0, 0, 0, 0, 0, 0, 0, 0, 0, 0, 0, 0, 0, 192, 0, 0, 0,
      0, 0, 0, 0, 0, 0, 0, 0, 0, 0, 0, 0, 0, 0, 0, 0, 0, 0, 0, 0, 48, 255, 255, 255, 3, 255, 255,
      255, 255, 255, 255, 247, 255, 127, 15, 0, 0, 0, 0, 0, 0, 0, 0, 0, 0, 0, 0, 0, 0, 0, 0, 0, 128,
      254, 255, 0, 252, 1, 0, 0, 248, 1, 0, 0, 248, 63, 0, 0, 0, 0, 0, 0, 0, 0, 0, 0, 0, 0, 0, 0, 0,
      127, 127, 0, 48, 135, 255, 255, 255, 255, 255, 143, 255, 0, 0, 0, 0, 0, 0, 224, 255, 255, 127,
      255, 15, 1, 0, 0, 0, 0, 0, 255, 255, 255, 255, 255, 63, 0, 0, 0, 0, 0, 0, 0, 0, 0, 0, 0, 0, 0,
      0, 0, 0, 0, 0, 0, 0, 0, 0, 0, 0, 0, 0, 0, 0, 255, 255, 255, 15, 0, 0, 0, 0, 15, 0, 0, 0, 0, 0,
      0, 0, 0, 0, 0, 0, 0, 0, 0, 128, 0, 0, 0, 0, 0, 0, 1, 0, 0, 0, 0, 0, 0, 0, 0, 0, 0, 0, 0, 0, 0,
      0, 0, 0, 0, 128, 0, 0, 0, 0, 0, 0, 0, 0, 0, 0, 0, 0, 0, 0, 0, 0, 0, 0, 0, 0, 0, 0, 0, 0, 0, 0,
      0, 0, 128, 255, 0, 0, 128, 255, 0, 0, 0, 0, 128, 255, 0, 0, 0, 0, 0, 0, 0, 0, 0, 248, 0, 0,
      192, 143, 0, 0, 0, 128, 0, 0, 0, 0, 0, 0, 0, 0, 0, 0, 0, 0, 0, 0, 0, 48, 255, 255, 252, 255,
      255, 255, 255, 255, 0, 0, 0, 0, 0, 0, 0, 135, 255, 1, 255, 1, 0, 0, 0, 224, 0, 0, 0, 224, 0, 0,
      0, 0, 0, 1, 0, 0, 96, 248, 127, 0, 0, 0, 0, 0, 0, 0, 0, 254, 0, 0, 0, 255, 0, 0, 0, 255, 0, 0,
      0, 30, 0, 254, 0, 0, 0, 0, 0, 0, 0, 0, 0, 0, 0, 0, 0, 0, 0, 0, 0, 0, 0, 0, 0, 0, 0, 0, 0, 0, 0,
      0, 0, 0, 0, 0, 0, 0, 0, 0, 0, 0, 0, 0, 0, 252, 0, 0, 0, 0, 0, 0, 0, 0, 0, 0, 0, 0, 255, 255,
      255, 127, 0, 0, 0, 0, 0, 0, 0, 0, 0, 0, 0, 0, 0, 0, 0, 0, 0, 0, 0, 224, 127, 0, 0, 0, 192, 255,
      255, 3, 0, 0, 0, 0, 0, 0, 0, 0, 0, 0, 0, 0, 0, 0, 0, 0, 0, 0, 0, 0, 0, 0, 0, 0, 0, 0, 0, 0,
      192, 63, 252, 255, 63, 0, 0, 128, 3, 0, 0, 0, 0, 0, 0, 254, 3, 32, 0, 0, 0, 0, 0, 0, 0, 0, 0,
      0, 0, 0, 24, 0, 15, 0, 0, 0, 0, 0, 56, 0, 0, 0, 0, 0, 0, 0, 0, 0, 225, 63, 0, 232, 254, 255,
      31, 0, 0, 0, 0, 0, 0, 0, 96, 63, 0, 0, 0, 0, 0, 0, 0, 0, 0, 0, 0, 0, 0, 2, 0, 0, 0, 0, 0, 0, 0,
      6, 0, 0, 0, 0, 0, 0, 0, 0, 0, 24, 0, 32, 0, 0, 192, 31, 31, 0, 0, 0, 0, 0, 0, 0, 0, 0, 0, 0, 0,
      0, 0, 0, 0, 0, 0, 0, 0, 0, 0, 0, 0, 0, 68, 248, 0, 104, 0, 0, 0, 0, 0, 0, 0, 0, 0, 0, 0, 0, 76,
      0, 0, 0, 0, 0, 0, 0, 0, 0, 0, 0, 0, 0, 0, 0, 0, 0, 0, 0, 0, 0, 0, 0, 0, 0, 0, 0, 0, 0, 0, 128,
      255, 255, 255, 0, 0, 0, 0, 0, 0, 0, 0, 0, 0, 0, 0, 128, 14, 0, 0, 0, 255, 31, 0, 0, 0, 0, 0, 0,
      0, 0, 192, 0, 0, 0, 0, 0, 0, 0, 0, 0, 0, 0, 0, 0, 0, 8, 0, 252, 0, 0, 0, 0, 0, 0, 0, 0, 0, 0,
      0, 0, 0, 0, 0, 0, 0, 0, 0, 0, 0, 0, 0, 0, 0, 0, 0, 0, 0, 0, 0, 14, 0, 0, 0, 0, 0, 0, 0, 0, 0,
      0, 0, 0, 0, 0, 0, 0, 0, 0, 0, 0, 0, 252, 7, 0, 0, 0, 0, 0, 0, 0, 0, 0, 0, 0, 0, 0, 0, 0, 0, 0,
      0, 0, 0, 0, 0, 0, 0, 0, 0, 0, 0, 0, 5, 0, 0, 0, 0, 0, 0, 0, 0, 0, 24, 128, 255, 0, 0, 0, 0, 0,
      0, 0, 0, 0, 0, 223, 7, 0, 0, 0, 0, 0, 0, 0, 0, 0, 0, 0, 0, 0, 0, 0, 0, 0, 0, 128, 62, 0, 0,
      252, 255, 31, 3, 0, 0, 0, 0, 0, 0, 0, 0, 0, 0, 0, 0, 0, 0, 0, 0, 0, 0, 0, 0, 0, 0, 0, 0, 0, 52,
      0, 0, 0, 0, 0, 0, 0, 0, 0, 128, 0, 0, 0, 0, 0, 0, 0, 0, 0, 0, 0, 0, 0, 0, 0, 0, 0, 0, 0, 0, 0,
      0, 0, 0, 0, 0, 0, 0, 0, 0, 0, 0, 0, 0, 0, 0, 0, 0, 0, 0, 0, 0, 0, 128, 1, 0, 0, 0, 0, 0, 0, 0,
      0, 0, 0, 0, 0, 0, 0, 0, 0, 0, 0, 0, 0, 0, 0, 0, 0, 255, 255, 255, 255, 255, 255, 3, 128, 0, 0,
      0, 0, 0, 0, 0, 0, 0, 0, 0, 0, 0, 0, 31, 0, 0, 0, 0, 0, 0, 0, 0, 0, 0, 0, 0, 0, 0, 0, 0, 0, 0,
      0, 0, 0, 0, 0, 255, 1, 0, 0, 0, 0, 0, 0, 0, 0, 0, 0, 0, 0, 0, 0, 0, 0, 0, 0, 0, 0, 0, 0, 0, 0,
      0, 0, 0, 0, 0, 0, 0, 0, 0, 0, 0, 0, 0, 192, 0, 0, 0, 0, 0, 0, 0, 0, 0, 0, 0, 0, 0, 0, 0, 0, 63,
      0, 0, 0, 0, 0, 0, 0, 255, 255, 48, 0, 0, 248, 3, 0, 0, 0, 0, 0, 0, 0, 0, 0, 0, 0, 0, 0, 0, 0,
      0, 0, 0, 0, 0, 0, 0, 0, 0, 0, 0, 0, 0, 0, 0, 0, 0, 0, 0, 0, 255, 255, 255, 7, 0, 0, 0, 0, 0, 0,
      0, 0, 0, 0, 0, 0, 0, 0, 0, 0, 0, 0, 0, 0, 0, 0, 0, 0, 0, 0, 0, 0, 0, 0, 0, 0, 0, 0, 0, 0, 0, 0,
      0, 0, 4, 0, 0, 0, 0, 0, 0, 0, 0, 0, 0, 0, 0, 0, 0, 0, 0, 0, 0, 0, 0, 0, 0, 176, 15, 0, 0, 0, 0,
      0, 0, 0, 0, 0, 0, 0, 255, 255, 255, 255, 255, 255, 255, 255, 255, 255, 255, 255, 255, 255, 255,
      255, 255, 255, 255, 255, 255, 255, 255, 255, 255, 255, 255, 255, 255, 255, 63, 0, 255, 255,
      255, 255, 127, 254, 255, 255, 255, 255, 255, 255, 255, 255, 255, 255, 255, 255, 255, 255, 255,
      255, 255, 255, 255, 255, 255, 255, 255, 1, 0, 0, 255, 255, 255, 255, 255, 255, 255, 255, 63, 0,
      0, 0, 0, 0, 0, 0, 0, 0, 0, 0, 0, 0, 0, 0, 0, 0, 0, 0, 255, 255, 15, 0, 255, 255, 255, 255, 255,
      255, 255, 255, 255, 255, 127, 0, 255, 255, 255, 1, 0, 0, 0, 0, 0, 0, 0, 0, 0, 0, 0, 0, 0, 0, 0,
      0, 0, 0, 0, 0, 0, 0, 0, 0, 0, 0, 0, 0, 0, 0, 0, 0, 0, 0, 0, 0, 0, 0, 0, 0, 2, 0, 0, 8, 0, 0, 0,
      8, 0, 0, 32, 0, 0, 0, 32, 0, 0, 128, 0, 0, 0, 128, 0, 0, 0, 2, 0, 0, 0, 2, 0, 0, 8, 0, 0, 0, 0,
      0, 0, 0, 255, 255, 255, 255, 255, 255, 255, 255, 255, 255, 255, 255, 255, 255, 255, 255, 255,
      15, 0, 248, 254, 255, 0, 0, 0, 0, 0, 0, 0, 0, 0, 0, 0, 0, 0, 0, 0, 0, 127, 0, 0, 128, 0, 0, 0,
      0, 0, 0, 0, 0, 0, 0, 0, 0, 0, 0, 0, 0, 0, 0, 0, 0, 0, 0, 0, 0, 0, 0, 0, 0, 0, 0, 0, 0, 0, 0, 0,
      0, 0, 0, 0, 0, 0, 0, 0, 0, 0, 0, 0, 0, 0, 0, 0, 240, 0, 128, 0, 0, 0, 0, 0, 0, 0, 0, 0, 0, 0,
      0, 0, 0, 0, 0, 0, 0, 0, 0, 0, 0, 0, 0, 128, 255, 127, 0, 0, 0, 0, 0, 0, 0, 0, 0, 0, 0, 0, 0,
      112, 7, 0, 192, 0, 0, 0, 0, 0, 0, 0, 0, 0, 0, 0, 0, 0, 0, 0, 0, 0, 0, 0, 0, 0, 0, 0, 0, 0, 0,
      0, 0, 0, 0, 0, 0, 0, 0, 254, 255, 255, 255, 255, 255, 255, 255, 31, 0, 0, 0, 0, 0, 0, 0, 0, 0,
      254, 255, 255, 255, 255, 255, 255, 63, 0, 0, 0, 0, 0, 0, 0, 0, 0, 0, 0, 0, 0, 0, 0, 0, 0, 0, 0,
      0, 0, 0, 0, 0, 0, 0, 0, 0, 0, 0, 0, 0, 0, 0, 0, 0, 0, 0, 0, 0, 0, 0, 0, 0, 0, 0, 0, 0, 0, 0, 0,
      0, 0, 0, 3, 0, 255, 255, 255, 255, 255, 15, 255, 255, 255, 255, 255, 255, 255, 255, 255, 255,
      255, 255, 15, 0, 255, 127, 254, 255, 254, 255, 254, 255, 255, 255, 63, 0, 255, 31, 255, 255,
      255, 255, 0, 0, 0, 252, 0, 0, 0, 28, 0, 0, 0, 252, 255, 255, 255, 31, 0, 0, 0, 0, 0, 0, 192,
      255, 255, 255, 7, 0, 255, 255, 255, 255, 255, 15, 255, 1, 3, 0, 63, 0, 0, 0, 0, 0, 0, 0, 0, 0,
      0, 0, 0, 0, 0, 0, 0, 0, 0, 0, 255, 255, 255, 255, 255, 255, 255, 255, 255, 255, 255, 255, 255,
      255, 255, 255, 255, 255, 255, 255, 255, 255, 255, 255, 255, 255, 63, 0, 255, 31, 255, 7, 255,
      255, 255, 255, 255, 255, 255, 255, 255, 255, 255, 255, 255, 255, 15, 0, 255, 255, 255, 255,
      255, 255, 255, 255, 255, 255, 255, 1, 255, 15, 0, 0, 255, 15, 255, 255, 255, 255, 255, 255,
      255, 0, 255, 3, 255, 255, 255, 255, 255, 0, 255, 255, 255, 63, 0, 0, 0, 0, 0, 0, 0, 0, 0, 0,
      255, 239, 255, 255, 255, 255, 255, 255, 255, 255, 255, 255, 255, 255, 123, 252, 255, 255, 255,
      255, 231, 199, 255, 255, 255, 231, 255, 255, 255, 255, 255, 255, 255, 255, 255, 255, 255, 255,
      255, 255, 255, 255, 15, 0, 255, 63, 15, 7, 7, 0, 63, 0, 0, 0, 0, 0, 0, 0, 0, 0, 0, 0, 0, 0>>

\* table[i] as Rust evaluates it, for an index i counted from 0: the value,
\* or OutOfBounds when the index check panics.
OutOfBounds == -1

At(i) == IF i \in 0..(TableLen - 1) THEN table[i + 1] ELSE OutOfBounds

\* x >> n and x & (2^n - 1) on unsigned values
Shr(x, n) == x \div (2 ^ n)

LowBits(x, n) == x % (2 ^ n)

\* The two table reads of a lookup and the value made of them.  page: the
\* entry read first; idx: the index read second; bit: the bit taken.
Lookup(first, idx, bit) ==
    IF At(first) = OutOfBounds
    THEN [ret |-> 0, reads |-> <<first>>, panicked |-> TRUE, done |-> TRUE]
    ELSE IF At(idx) = OutOfBounds
    THEN [ret |-> 0, reads |-> <<first, idx>>, panicked |-> TRUE, done |-> TRUE]
    ELSE [ret |-> LowBits(Shr(At(idx), bit), 1), reads |-> <<first, idx>>,
          panicked |-> FALSE, done |-> TRUE]

\* Mutants of is: the range check is missing; the blocks are taken to be 64
\* bytes long; the bits of a byte are taken from the most significant end.
is_NoLimit(wc_) ==
    Lookup(Shr(wc_, 8), At(Shr(wc_, 8)) * 32 + Shr(LowBits(wc_, 8), 3), LowBits(wc_, 3))

is_WideBlocks(wc_) ==
    IF wc_ < PunctLimit
    THEN Lookup(Shr(wc_, 8), At(Shr(wc_, 8)) * 64 + Shr(LowBits(wc_, 8), 3),
                LowBits(wc_, 3))
    ELSE [ret |-> 0, reads |-> <<>>, panicked |-> FALSE, done |-> TRUE]

is_MsbFirst(wc_) ==
    IF wc_ < PunctLimit
    THEN Lookup(Shr(wc_, 8), At(Shr(wc_, 8)) * 32 + Shr(LowBits(wc_, 8), 3),
                7 - LowBits(wc_, 3))
    ELSE [ret |-> 0, reads |-> <<>>, panicked |-> FALSE, done |-> TRUE]

\* punct::is:
\*   if wc < 0x20000 {
\*       return (table[(table[wc >> 8] as usize) * 32 + ((wc & 255) >> 3)]
\*                  >> (wc & 7)) & 1;
\*   }
\*   return 0;
is(wc_) ==
    IF wc_ < PunctLimit
    THEN Lookup(Shr(wc_, 8), At(Shr(wc_, 8)) * 32 + Shr(LowBits(wc_, 8), 3),
                LowBits(wc_, 3))
    ELSE [ret |-> 0, reads |-> <<>>, panicked |-> FALSE, done |-> TRUE]

\* The code points the classification is checked for: every one up to
\* MaxWc, which lies beyond the table's range, and the largest value the
\* model checker's integers hold.
PunctInputs == (0..MaxWc) \cup {2147483647}

\* The classification function is called with wc.
Classify ==
    /\ ~out.done
    /\ out' = is(wc)
    /\ UNCHANGED <<wc, handleVars, build>>

\* No wrapper has been constructed.
InitWrappers ==
    /\ owner = [o \in Owners |-> NoOwner]
    /\ views = [o \in Owners |-> <<>>]
    /\ res = [i \in RealIds |-> "free"]
    /\ closeCalls = [r \in RawVals |-> 0]
    /\ heldHandles = {}
    /\ heldSockets = {}
    /\ misuse = FALSE
    /\ last = NoLast

Init ==
    /\ InitWrappers
    /\ wc = 0
    /\ out = NoOut
    /\ build = DevBuild

InitPunct ==
    /\ InitWrappers
    /\ wc \in PunctInputs
    /\ out = NoOut
    /\ build = DevBuild

Next ==
    \/ FfiHandleOrNull
    \/ FfiHandleOrInvalid
    \/ NewSocket
    \/ FromRawHandle
    \/ FromRawSocket
    \/ \E o \in Owners : TryFromHandleOrNull(o)
    \/ \E o \in Owners : TryFromHandleOrInvalid(o)
    \/ \E o \in Owners : IntoRawHandle(o)
    \/ \E o \in Owners : IntoRawSocket(o)
    \/ \E o \in Owners : DropHandle(o)
    \/ \E o \in Owners : DropSocket(o)
    \/ \E o \in Owners : AsHandle(o)
    \/ \E o \in Owners : AsSocket(o)
    \/ \E o \in Owners : CopyView(o)
    \/ \E o \in Owners : DropView(o)
    \/ \E o \in Owners : TryCloneToOwned(o)
    \/ \E o \in Owners : TryClone(o)
    \/ \E o \in Owners : SocketTryCloneToOwned(o)
    \/ \E o \in Owners : SocketTryClone(o)

Spec == Init /\ [][Next]_vars

\* The build is any of the configurations.
InitSocket ==
    /\ InitWrappers
    /\ wc = 0
    /\ out = NoOut
    /\ build \in Builds

\* The socket wrappers in every build, with callers that pass what a foreign
\* call returned, INVALID_SOCKET included, to the unsafe constructors.
NextSocket ==
    \/ FfiSocket
    \/ \E o \in Owners : AsSocket(o)
    \/ \E o \in Owners : BorrowRawSocket(o)
    \/ \E o \in Owners : DropView(o)
    \/ \E o \in Owners : SocketTryCloneToOwned(o)
    \/ \E o \in Owners : SocketTryClone(o)
    \/ \E o \in Owners : DropSocket(o)

SpecSocket == InitSocket /\ [][NextSocket]_vars

\* Owned wrappers borrowed from through sharing layers.
NextLayers ==
    \/ FfiHandleOrInvalid
    \/ NewSocket
    \/ \E o \in Owners : TryFromHandleOrInvalid(o)
    \/ \E o \in Owners, stack \in LayerStacks : AsHandleVia(o, stack)
    \/ \E o \in Owners, stack \in LayerStacks : AsSocketVia(o, stack)
    \/ \E o \in Owners : DropHandle(o)
    \/ \E o \in Owners : DropSocket(o)

SpecLayers == Init /\ [][NextLayers]_vars

\* The concrete resource types and their conversions to and from the owned
\* wrappers.
NextConv ==
    \/ \E kind \in ConcreteKinds : NewConcrete(kind)
    \/ \E o \in Owners : FromFile(o)
    \/ \E o \in Owners : IntoFile(o)
    \/ \E o \in Owners : FromNet(o)
    \/ \E o \in Owners, kind \in NetKinds : IntoNet(o, kind)
    \/ \E o \in Owners : DropConcrete(o)
    \/ \E o \in Owners : DropHandle(o)
    \/ \E o \in Owners : DropSocket(o)

SpecConv == Init /\ [][NextConv]_vars

\* Threads that hold distinct owned wrappers and share borrowed wrappers,
\* with close calls that take time.
NextThreads ==
    \/ NewSocket
    \/ FfiHandleOrInvalid
    \/ \E o \in Owners : TryFromHandleOrInvalid(o)
    \/ \E o \in Owners : AsHandle(o)
    \/ \E o \in Owners : AsSocket(o)
    \/ \E o \in Owners : CopyView(o)
    \/ \E o \in Owners : DropView(o)
    \/ \E o \in Owners, i \in 1..MaxViews : ReadRaw(o, i)
    \/ \E o \in Owners : TryClone(o)
    \/ \E o \in Owners : SocketTryClone(o)
    \/ \E o \in Owners : BeginDrop(o)
    \/ \E o \in Owners : EndDrop(o)

SpecThreads == Init /\ [][NextThreads]_vars

\* The classification of one code point, for every code point.
NextPunct == Classify

SpecPunct == InitPunct /\ [][NextPunct]_vars

\* ------------------------------------------------------------- properties

\* The raw values the caller holds for the type of owner o.
Held(o) == IF owner[o].kind = "OwnedSocket" THEN heldSockets ELSE heldHandles

RECURSIVE Occurrences(_, _)
Occurrences(seq, r) ==
    IF seq = <<>> THEN 0
    ELSE (IF Head(seq) = r THEN 1 ELSE 0) + Occurrences(Tail(seq), r)

\* Every close call the system received was issued by the destructor of an
\* owner, and every call a destructor issued was received.
CloseCallsAccounted ==
    \A r \in RawVals :
        closeCalls[r] =
            SumOver([o \in Owners |-> Occurrences(owner[o].closed, r)], Owners)

IsDuplication == last.op \in {"try_clone", "try_clone_to_owned"}

\* C1: an owned wrapper whose destructor has run has issued exactly one
\* close call, with the raw value it was constructed from; a wrapper still
\* alive has issued none; the system has received exactly these calls.
C1_DropClosesOnce ==
    /\ \A o \in Owners :
           /\ owner[o].st = "dropped" => owner[o].closed = <<owner[o].orig>>
           /\ owner[o].st \in {"none", "live"} => owner[o].closed = <<>>
    /\ CloseCallsAccounted

C1_Witness ==
    \E o, p \in Owners :
        /\ owner[o].st = "dropped" /\ owner[o].kind = "OwnedHandle"
        /\ owner[o].orig \in RealIds /\ closeCalls[owner[o].orig] = 1
        /\ owner[p].st = "dropped" /\ owner[p].kind = "OwnedSocket"
        /\ closeCalls[owner[p].orig] = 1

\* C2: into_raw returns the raw value the wrapper held and issues no close
\* call; the consumed wrapper never issues one, and as long as the caller
\* holds the raw value (has not wrapped it again) its resource stays open
\* and no close call has been issued with it.
C2_IntoRawSuppressesClose ==
    /\ last.op = "into_raw" =>
           /\ owner[last.o].st = "released"
           /\ last.ret = owner[last.o].orig
           /\ last.closes = 0
    /\ \A o \in Owners :
           owner[o].st = "released" =>
               /\ owner[o].closed = <<>>
               /\ (owner[o].raw \in RealIds /\ owner[o].raw \in Held(o)) =>
                      /\ res[owner[o].raw] = "open"
                      /\ closeCalls[owner[o].raw] = 0

C2_Witness ==
    \E o \in Owners :
        /\ owner[o].st = "released"
        /\ owner[o].raw \in RealIds
        /\ owner[o].raw \in Held(o)
        /\ last.op = "drop"
        /\ last.o # o

\* C3: converting a HandleOrNull that holds null fails with NullHandleError,
\* no close call is issued during the conversion, and the wrapper it
\* consumed is not alive afterwards and never issues a close call.
C3_NullConversionFails ==
    /\ (last.op = "HandleOrNull::try_from" /\ owner[last.o].raw = NULL) =>
           /\ last.res = "NullHandleError"
           /\ last.closes = 0
           /\ owner[last.o].st = "forgotten"
    /\ \A o \in Owners : owner[o].st = "forgotten" => owner[o].closed = <<>>

C3_Witness ==
    /\ last.op = "HandleOrNull::try_from"
    /\ owner[last.o].raw = NULL
    /\ owner[last.o].kind = "HandleOrNull"

\* C4: for every raw handle r other than null, converting
\* HandleOrNull::from_raw_handle(r) succeeds, the OwnedHandle's
\* as_raw_handle() is r, and the conversion issues no close call.
C4_NonNullConversionSucceeds ==
    (last.op = "HandleOrNull::try_from" /\ owner[last.o].orig # NULL) =>
        /\ last.res = "Ok"
        /\ Live(last.o)
        /\ owner[last.o].kind = "OwnedHandle"
        /\ as_raw_handle(owner[last.o]) = owner[last.o].orig
        /\ last.closes = 0

C4_Witness ==
    /\ last.op = "HandleOrNull::try_from"
    /\ last.res = "Ok"
    /\ owner[last.o].orig \in RealIds

\* C5: converting a HandleOrInvalid that holds INVALID_HANDLE_VALUE fails
\* with InvalidHandleError and no close call is issued with the sentinel,
\* during the conversion or by the consumed wrapper later.
C5_InvalidConversionFails ==
    (last.op = "HandleOrInvalid::try_from"
        /\ owner[last.o].raw = INVALID_HANDLE_VALUE) =>
            /\ last.res = "InvalidHandleError"
            /\ last.closes = 0
            /\ owner[last.o].st = "forgotten"
            /\ owner[last.o].closed = <<>>

C5_Witness ==
    /\ last.op = "HandleOrInvalid::try_from"
    /\ owner[last.o].raw = INVALID_HANDLE_VALUE
    /\ owner[last.o].kind = "HandleOrInvalid"

\* C6: for every raw handle r other than INVALID_HANDLE_VALUE, converting
\* HandleOrInvalid::from_raw_handle(r) succeeds, the OwnedHandle's
\* as_raw_handle() is r, and the conversion issues no close call.
C6_ValidConversionSucceeds ==
    (last.op = "HandleOrInvalid::try_from"
        /\ owner[last.o].orig # INVALID_HANDLE_VALUE) =>
            /\ last.res = "Ok"
            /\ Live(last.o)
            /\ owner[last.o].kind = "OwnedHandle"
            /\ as_raw_handle(owner[last.o]) = owner[last.o].orig
            /\ last.closes = 0

C6_Witness ==
    /\ last.op = "HandleOrInvalid::try_from"
    /\ last.res = "Ok"
    /\ owner[last.o].orig \in RealIds
\* Owners o and p are two live owned wrappers of the same type.
TwoLiveOwners(o, p) ==
    /\ o # p
    /\ Live(o) /\ Live(p)
    /\ owner[o].kind \in OwnedKinds
    /\ owner[o].kind = owner[p].kind

\* C7 as stated: no two live OwnedHandle (or OwnedSocket) values hold the
\* same raw id at the same time.
C7_Original ==
    \A o, p \in Owners : TwoLiveOwners(o, p) => owner[o].raw # owner[p].raw

\* C7 as amended: two live owned wrappers of one type hold the same raw id
\* only if that id is null or -1, which denote no resource of the system;
\* every id that denotes a resource has at most one live owner.
C7_OneOwnerPerResource ==
    \A o, p \in Owners :
        (TwoLiveOwners(o, p) /\ owner[o].raw = owner[p].raw) =>
            owner[o].raw \in {NULL, INVALID_HANDLE_VALUE}

C7_Witness ==
    \E o, p \in Owners :
        /\ TwoLiveOwners(o, p)
        /\ owner[p].src = o
        /\ owner[o].raw \in RealIds
        /\ owner[p].raw \in RealIds

\* C8 as stated: no operation is applied to an id that is CLOSED, and close
\* is never issued twice for the same id.
C8_Original ==
    /\ ~misuse
    /\ \A r \in RawVals : closeCalls[r] <= 1

\* C8 as amended: no operation (read, borrow, duplicate, close) is applied
\* to a resource that is not OPEN, and for every id that denotes a resource
\* close is issued at most once, exactly when the resource is CLOSED; only
\* null and -1, which denote no resource, may be passed to close repeatedly.
C8_NoUseAfterClose ==
    /\ ~misuse
    /\ \A i \in RealIds :
           /\ closeCalls[i] <= 1
           /\ res[i] = "closed" <=> closeCalls[i] = 1

C8_Witness ==
    /\ \E i \in RealIds : res[i] = "closed" /\ closeCalls[i] = 1
    /\ last.op \in {"as_handle", "as_socket", "try_clone"}
    /\ owner[last.o].raw \in RealIds
    /\ res[owner[last.o].raw] = "open"

\* C9 as stated: a successful duplicate-to-owned returns an owned wrapper
\* whose id differs from the source id, for every source id.
C9_Original ==
    (IsDuplication /\ last.res = "Ok") =>
        owner[last.new].raw # owner[last.o].raw

\* C9 as amended: a successful duplicate-to-owned returns an owned wrapper
\* whose id differs from the source id, for every source id other than
\* null; the duplicate of a null handle holds null.
C9_DuplicateDiffers ==
    (IsDuplication /\ last.res = "Ok") =>
        /\ last.ret = owner[last.new].raw
        /\ owner[last.o].raw # NULL => owner[last.new].raw # owner[last.o].raw
        /\ owner[last.o].raw = NULL => owner[last.new].raw = NULL

C9_Witness ==
    /\ IsDuplication
    /\ last.res = "Ok"
    /\ owner[last.o].raw \in RealIds
    /\ owner[last.o].kind = "OwnedSocket"

\* What C10 says of a duplicate d and the owner s it was duplicated from.
IndependentlyClosable(s, d) ==
    /\ (owner[s].st = "dropped" /\ owner[d].st = "dropped") =>
           /\ owner[s].closed = <<owner[s].raw>>
           /\ owner[d].closed = <<owner[d].raw>>
           /\ owner[s].raw # owner[d].raw
           /\ \A r \in {owner[s].raw, owner[d].raw} \cap RealIds :
                  closeCalls[r] = 1
    /\ \A x, y \in {s, d} :
           (owner[x].st = "dropped" /\ Live(y) /\ owner[y].raw \in RealIds) =>
               res[owner[y].raw] = "open"

\* C10 as stated: after a successful duplication, dropping the original and
\* the duplicate issues one close call per owner and never two close calls
\* on the same id, and dropping one leaves the other's resource OPEN.
C10_Original ==
    \A d \in Owners :
        owner[d].src # 0 => IndependentlyClosable(owner[d].src, d)

\* C10 as amended: the same, after a successful duplication of a source
\* whose id is not null (the duplicate of a null handle holds null too, so
\* dropping both issues two close calls with null).
C10_IndependentlyClosable ==
    \A d \in Owners :
        (owner[d].src # 0 /\ owner[owner[d].src].raw # NULL) =>
            IndependentlyClosable(owner[d].src, d)

C10_Witness ==
    \E d \in Owners :
        /\ owner[d].src # 0
        /\ owner[d].st = "dropped"
        /\ owner[owner[d].src].st = "dropped"
        /\ owner[owner[d].src].raw \in RealIds
        /\ owner[d].kind = "OwnedHandle"
\* ---------------------------------------------------------------- C11
\* The calls of a duplication that ask the system to do something: reading
\* the error code of the call before is not an attempt.
Attempts(calls) == SelectSeq(calls, LAMBDA c : c # "WSAGetLastError")

\* The system function a call is a call of.
OsFunction(c) == IF c = "WSASocketW(NO_HANDLE_INHERIT)" THEN "WSASocketW" ELSE c

\* C11 as stated: a duplication in which an OS call failed returns an error,
\* and no system function is called a second time in one duplication.
\* Violated: after WSASocketW fails with WSAEPROTOTYPE or WSAEINVAL the
\* socket duplication calls WSASocketW again, and may return Ok.
C11_Original ==
    IsDuplication =>
        LET a == Attempts(last.calls) IN
        /\ last.failed # {} => last.res # "Ok"
        /\ \A i, j \in 1..Len(a) : i # j => OsFunction(a[i]) # OsFunction(a[j])

\* C11 (amended): in a duplication no OS call is made twice with the same
\* arguments; when the last call attempted fails the duplication returns an
\* error; the one failed call that is followed by another attempt is the
\* WSASocketW with WSA_FLAG_NO_HANDLE_INHERIT, followed by the WSASocketW
\* without that flag, and the errors that cause this fallback are never
\* what the duplication returns.
C11_FailurePropagates ==
    IsDuplication =>
        LET a == Attempts(last.calls) IN
        /\ \A i, j \in 1..Len(a) : i # j => a[i] # a[j]
        /\ \A i \in 1..Len(a) :
               a[i] \in last.failed =>
                   \/ i = Len(a) /\ last.res # "Ok"
                   \/ /\ a[i] = "WSASocketW(NO_HANDLE_INHERIT)"
                      /\ i < Len(a)
                      /\ a[i + 1] = "WSASocketW"
        /\ last.res = "Ok" => (a = <<>> \/ a[Len(a)] \notin last.failed)
        /\ last.res \notin {"WSAEPROTOTYPE", "WSAEINVAL"}

\* A socket duplication whose first WSASocketW failed and whose second
\* attempt succeeded.
C11_Witness ==
    /\ IsDuplication
    /\ last.res = "Ok"
    /\ last.failed = {"WSASocketW(NO_HANDLE_INHERIT)"}
    /\ Attempts(last.calls)[3] = "WSASocketW"

\* ---------------------------------------------------------------- C12
BorrowOps == {"as_handle", "as_socket"}

\* C12: after as_handle() / as_socket() on an owned wrapper, the borrowed
\* wrapper made last has the owner's raw value, which is also what as_raw
\* on it returned, and the operation made no OS call and no close call.
C12_BorrowKeepsRaw ==
    last.op \in BorrowOps =>
        LET o == last.o
            v == views[o][Len(views[o])]
        IN
        /\ views[o] # <<>>
        /\ Live(o)
        /\ as_raw_handle(v) = as_raw_handle(owner[o])
        /\ last.ret = as_raw_handle(owner[o])
        /\ last.calls = <<>>
        /\ last.closes = 0

\* as_handle() on an OwnedHandle that holds the pseudo handle -1.
C12_Witness ==
    /\ last.op = "as_handle"
    /\ owner[last.o].kind = "OwnedHandle"
    /\ owner[last.o].raw = INVALID_HANDLE_VALUE
    /\ views[last.o] = <<borrow_raw(INVALID_HANDLE_VALUE)>>

\* ---------------------------------------------------------------- C13
\* The operations that construct, copy or end a borrowed wrapper.
ViewOps == {"as_handle", "as_socket", "copy_view", "drop_view"}

\* C13: a step that constructs, copies or drops a borrowed wrapper issues no
\* close call and no OS call, opens and closes no resource, and changes no
\* owner: the owner borrowed from is alive and has closed nothing.
C13_ViewsOwnNothing ==
    [][last'.op \in ViewOps =>
          /\ closeCalls' = closeCalls
          /\ res' = res
          /\ owner' = owner
          /\ last'.calls = <<>>
          /\ last'.closes = 0
          /\ Live(last'.o)
          /\ owner[last'.o].closed = <<>>]_vars

\* A borrowed wrapper of a real, open resource has been copied; no close
\* call has been issued with the resource's id.
C13_Witness ==
    /\ last.op = "copy_view"
    /\ Len(views[last.o]) = 2
    /\ views[last.o][2] = views[last.o][1]
    /\ owner[last.o].raw \in RealIds
    /\ res[owner[last.o].raw] = "open"
    /\ closeCalls[owner[last.o].raw] = 0

\* ---------------------------------------------------------------- C14
ConvOps == {"into_owned", "from_owned"}

\* The live wrappers, owned or concrete, that hold the raw value r.
OwnersOf(r) == {p \in Owners : Live(p) /\ owner[p].raw = r}

\* C14 (under SpecConv): the round trip File -> OwnedHandle -> File, and
\* TcpStream / TcpListener / UdpSocket -> OwnedSocket -> the same type,
\* returns a wrapper of the same raw id and drops no wrapper on the way; and
\* after every conversion step the wrapper converted holds the id it held
\* before, which is the id it was first constructed from, no close call was
\* issued, the resource is open, and the id has exactly one owner.
C14_ConversionsTransferOwnership ==
    /\ \A o \in Owners :
           Live(o) /\ owner[o].kind \in NetKinds =>
               LET there == OwnedSocket_from(owner[o])
                   back == Net_from(there.value)
               IN /\ as_raw_socket(back.value) = as_raw_socket(owner[o])
                  /\ there.dropped = <<>>
                  /\ back.dropped = <<>>
    /\ \A o \in Owners :
           Live(o) /\ owner[o].kind = "File" =>
               LET there == OwnedHandle_from(owner[o])
                   back == File_from(there.value)
               IN /\ as_raw_handle(back.value) = as_raw_handle(owner[o])
                  /\ there.dropped = <<>>
                  /\ back.dropped = <<>>
    /\ last.op \in ConvOps =>
           LET o == last.o IN
           /\ Live(o)
           /\ owner[o].kind \in (IF last.op = "into_owned" THEN OwnedKinds
                                  ELSE ConcreteKinds)
           /\ owner[o].raw = last.ret
           /\ owner[o].raw = owner[o].orig
           /\ last.closes = 0
           /\ owner[o].closed = <<>>
           /\ closeCalls[owner[o].raw] = 0
           /\ res[owner[o].raw] = "open"
           /\ OwnersOf(owner[o].raw) = {o}
           /\ owner[o].raw \notin heldHandles \cup heldSockets

\* A TcpStream that has been converted back from an OwnedSocket, which in
\* turn was converted from a concrete socket type, while another wrapper
\* has been closed.
C14_Witness ==
    /\ last.op = "from_owned"
    /\ owner[last.o].kind = "TcpStream"
    /\ owner[last.o].raw \in RealIds
    /\ res[owner[last.o].raw] = "open"
    /\ \E p \in Owners : owner[p].st = "dropped" /\ owner[p].kind = "File"

\* ---------------------------------------------------------------- C15
\* C15: when an OwnedHandle or an OwnedSocket has gone out of scope, its
\* destructor has issued its close call and returned normally, whether the
\* close call succeeded or failed, and the wrapper is an owner no more.
C15_CloseFailureSwallowed ==
    last.op = "drop" /\ owner[last.o].kind \in OwnedKinds =>
        /\ last.res = "returned"
        /\ last.closes = 1
        /\ owner[last.o].st = "dropped"
        /\ owner[last.o].closed = <<owner[last.o].raw>>

\* The destructor of an OwnedHandle of a real resource has run and its
\* CloseHandle call failed.
C15_Witness ==
    /\ last.op = "drop"
    /\ owner[last.o].kind = "OwnedHandle"
    /\ owner[last.o].raw \in RealIds
    /\ last.failed = {"CloseHandle"}
    /\ last.res = "returned"
    /\ owner[last.o].st = "dropped"

\* ---------------------------------------------------------------- C16
\* C16: when try_clone has been called on an OwnedHandle (OwnedSocket), then
\* for every answer of the system, try_clone on that owner returns what
\* try_clone_to_owned returns on the borrowed wrapper as_handle()
\* (as_socket()) makes of it, and on every borrowed wrapper of it that
\* exists, with the same OS calls and the same resources opened; the
\* original owner is alive, its destructor has not run, and the only close
\* call the operation may have issued is that of a new socket whose
\* set_no_inherit failed.
C16_TryCloneIsBorrowThenDuplicate ==
    last.op = "try_clone" =>
        LET o == last.o IN
        /\ Live(o)
        /\ owner[o].closed = <<>>
        /\ \/ last.closes = 0
           \/ last.closes = 1 /\ last.res = "set_no_inherit"
        /\ owner[o].kind = "OwnedHandle" =>
               \A os \in DuplicateHandleOutcomes :
                   /\ try_clone(owner[o], os) = try_clone_to_owned(as_handle(owner[o]), os)
                   /\ \A i \in DOMAIN views[o] :
                          /\ try_clone(owner[o], os) = try_clone_to_owned(views[o][i], os)
                          /\ as_raw_handle(views[o][i]) = as_raw_handle(owner[o])
        /\ owner[o].kind = "OwnedSocket" =>
               \A os \in SocketOutcomes :
                   /\ socket_try_clone(owner[o], os)
                          = socket_try_clone_to_owned(as_socket(owner[o]), os)
                   /\ \A i \in DOMAIN views[o] :
                          /\ socket_try_clone(owner[o], os)
                                 = socket_try_clone_to_owned(views[o][i], os)
                          /\ as_raw_socket(views[o][i]) = as_raw_socket(owner[o])

\* try_clone has succeeded on an owner of a real resource of which a
\* borrowed wrapper exists.
C16_Witness ==
    /\ last.op = "try_clone"
    /\ last.res = "Ok"
    /\ views[last.o] # <<>>
    /\ owner[last.o].raw \in RealIds
    /\ last.new # 0
    /\ Live(last.new)

\* ---------------------------------------------------------------- C17
\* The wrappers whose destructor has issued a close call with r: the call is
\* in flight (closing) or completed (dropped).
ClosersOf(r) ==
    {o \in Owners : owner[o].st \in {"closing", "dropped"}
                       /\ Occurrences(owner[o].closed, r) > 0}

\* C17 (under SpecThreads): for every resource, at most one close call is
\* in flight or completed, and it was issued by the destructor of the
\* resource's one owner; while borrowed wrappers of an owner exist no close
\* call of that owner is in flight, and every read of the raw value through
\* any of them returns the owner's id.
C17_NoConcurrentClose ==
    /\ CloseCallsAccounted
    /\ \A r \in RealIds :
           /\ closeCalls[r] <= 1
           /\ Cardinality(ClosersOf(r)) = closeCalls[r]
           /\ Cardinality(OwnersOf(r) \cup ClosersOf(r)) <= 1
           /\ res[r] = "closed" => closeCalls[r] = 1
    /\ \A o \in Owners :
           views[o] # <<>> =>
               /\ Live(o)
               /\ owner[o].closed = <<>>
               /\ \A i \in DOMAIN views[o] :
                      as_raw_handle(views[o][i]) = as_raw_handle(owner[o])
    /\ last.op = "as_raw" =>
           /\ last.ret = as_raw_handle(owner[last.o])
           /\ last.closes = 0

\* The close calls of two owners of distinct resources are in flight at the
\* same time.
C17_Witness ==
    \E o, p \in Owners :
        /\ owner[o].st = "closing"
        /\ owner[p].st = "closing"
        /\ owner[o].raw \in RealIds
        /\ owner[p].raw \in RealIds
        /\ owner[o].raw # owner[p].raw
        /\ closeCalls[owner[o].raw] = 1
        /\ closeCalls[owner[p].raw] = 1

\* ---------------------------------------------------------------- C18
\* C18 (under SpecPunct): for every code point wc >= 0x20000, is(wc) returns
\* 0 and reads no entry of the table.
C18_BeyondRangeIsZero ==
    out.done /\ wc >= PunctLimit =>
        /\ out.ret = 0
        /\ out.reads = <<>>
        /\ ~out.panicked

\* is has returned for the first code point beyond the table's range.
C18_Witness ==
    /\ out.done
    /\ wc = PunctLimit
    /\ out.ret = 0
    /\ out.reads = <<>>

\* ---------------------------------------------------------------- C19
\* C19 (under SpecPunct): the table has 4000 entries; for every wc < 0x20000
\* is(wc) reads the entry wc >> 8, which is one of the first 512, and then
\* the entry table[wc >> 8] * 32 + ((wc & 255) >> 3), which is below 4000;
\* no index is out of bounds, and for every wc the value returned is 0 or 1.
C19_TotalAndInBounds ==
    /\ Len(table) = TableLen
    /\ out.done =>
           /\ ~out.panicked
           /\ out.ret \in {0, 1}
           /\ wc < PunctLimit =>
                  /\ Len(out.reads) = 2
                  /\ out.reads[1] = Shr(wc, 8)
                  /\ out.reads[1] \in 0..511
                  /\ out.reads[2] = table[out.reads[1] + 1] * 32 + Shr(LowBits(wc, 8), 3)
                  /\ out.reads[2] \in 0..(TableLen - 1)

\* is has read the last entry of the table, for the last code point of a
\* page, and returned.
C19_Witness ==
    /\ out.done
    /\ wc < PunctLimit
    /\ LowBits(wc, 8) = 255
    /\ Len(out.reads) = 2
    /\ out.reads[2] = TableLen - 1
    /\ ~out.panicked

\* ---------------------------------------------------------------- C20
\* The ASCII punctuation characters: 0x21-0x2F, 0x3A-0x40, 0x5B-0x60,
\* 0x7B-0x7E.
AsciiPunct == (33..47) \cup (58..64) \cup (91..96) \cup (123..126)

\* C20 (under SpecPunct): for every wc in 0x00..0x7F, is(wc) returns 1 when
\* wc is an ASCII punctuation character and 0 when it is not.
C20_AsciiPunctuation ==
    out.done /\ wc \in 0..127 =>
        out.ret = (IF wc \in AsciiPunct THEN 1 ELSE 0)

\* is has returned 1 for '~' (0x7E).
C20_Witness ==
    /\ out.done
    /\ wc = 126
    /\ out.ret = 1
    /\ ~out.panicked

\* ---------------------------------------------------------------- C21
\* What C21 says of the three constructors: borrow_raw(INVALID_SOCKET)
\* panics and makes no wrapper, no borrowed socket ever holds INVALID_SOCKET,
\* and a successful duplication never returns INVALID_SOCKET.
BorrowedNeverInvalid ==
    /\ \A o \in Owners : \A i \in DOMAIN views[o] :
           as_raw_socket(views[o][i]) # INVALID_SOCKET
    /\ (last.op \in {"BorrowedSocket::borrow_raw", "as_socket"}
            /\ last.ret = INVALID_SOCKET) => last.res = "panicked"
    /\ (IsDuplication /\ last.res = "Ok") =>
           /\ last.ret # INVALID_SOCKET
           /\ owner[last.new].raw # INVALID_SOCKET

\* The owned sockets that hold INVALID_SOCKET.
InvalidOwners ==
    {o \in Owners : owner[o].kind = "OwnedSocket" /\ owner[o].raw = INVALID_SOCKET}

C22_OwnSentinelOnly ==
    /\ \A r \in RawVals :
           /\ HandleOrNull_try_from(HandleOrNull_from_raw_handle(r)).ok <=> r # NULL
           /\ HandleOrInvalid_try_from(HandleOrInvalid_from_raw_handle(r)).ok
                  <=> r # INVALID_HANDLE_VALUE
    /\ last.op = "HandleOrNull::try_from" =>
           /\ last.res = "NullHandleError" <=> owner[last.o].orig = NULL
           /\ last.res = "Ok" <=> owner[last.o].orig # NULL
           /\ owner[last.o].orig = INVALID_HANDLE_VALUE =>
                  /\ Live(last.o)
                  /\ owner[last.o].kind = "OwnedHandle"
                  /\ as_raw_handle(owner[last.o]) = INVALID_HANDLE_VALUE
    /\ last.op = "HandleOrInvalid::try_from" =>
           /\ last.res = "InvalidHandleError" <=> owner[last.o].orig = INVALID_HANDLE_VALUE
           /\ last.res = "Ok" <=> owner[last.o].orig # INVALID_HANDLE_VALUE
           /\ owner[last.o].orig = NULL =>
                  /\ Live(last.o)
                  /\ owner[last.o].kind = "OwnedHandle"
                  /\ as_raw_handle(owner[last.o]) = NULL

\* A HandleOrNull that holds -1 has just been converted, and an OwnedHandle
\* that holds null, converted from a HandleOrInvalid, is alive.
C22_Witness ==
    /\ last.op = "HandleOrNull::try_from"
    /\ last.res = "Ok"
    /\ owner[last.o].raw = INVALID_HANDLE_VALUE
    /\ \E p \in Owners :
           /\ Live(p)
           /\ owner[p].kind = "OwnedHandle"
           /\ owner[p].raw = NULL
           /\ owner[p].src = 0

\* ---------------------------------------------------------------- C23
SentinelKinds == {"HandleOrNull", "HandleOrInvalid"}

\* The value that means failure for the sentinel wrapper o.
SentinelOf(o) == IF owner[o].kind = "HandleOrNull" THEN NULL ELSE INVALID_HANDLE_VALUE

\* C23: when a HandleOrNull that holds a non-null handle, or a
\* HandleOrInvalid that holds a handle other than INVALID_HANDLE_VALUE, has
\* gone out of scope without being converted, exactly one close call has
\* been issued for it, with the handle it held; if the handle denotes a
\* resource, that is the one close call with it and the resource is closed.
C23_UnconvertedWrapperCloses ==
    /\ \A o \in Owners :
           (owner[o].kind \in SentinelKinds /\ owner[o].st = "dropped"
                /\ owner[o].raw # SentinelOf(o)) =>
               /\ owner[o].closed = <<owner[o].orig>>
               /\ owner[o].raw = owner[o].orig
               /\ closeCalls[owner[o].raw] >= 1
               /\ owner[o].raw \in RealIds =>
                      /\ closeCalls[owner[o].raw] = 1
                      /\ res[owner[o].raw] = "closed"
    /\ (last.op = "drop" /\ owner[last.o].kind \in SentinelKinds
            /\ owner[last.o].raw # SentinelOf(last.o)) =>
           /\ last.closes = 1
           /\ owner[last.o].st = "dropped"

\* A HandleOrNull and a HandleOrInvalid, each holding a resource, have been
\* dropped without conversion; the last one dropped is the HandleOrInvalid.
C23_Witness ==
    /\ last.op = "drop"
    /\ owner[last.o].kind = "HandleOrInvalid"
    /\ owner[last.o].raw \in RealIds
    /\ res[owner[last.o].raw] = "closed"
    /\ \E p \in Owners :
           /\ owner[p].kind = "HandleOrNull"
           /\ owner[p].st = "dropped"
           /\ owner[p].raw \in RealIds
           /\ closeCalls[owner[p].raw] = 1

\* ---------------------------------------------------------------- C24
\* C24 (under SpecLayers): for every live OwnedHandle (OwnedSocket) and
\* every stack of layers &, &mut, Arc, Rc, Box around it, as_handle
\* (as_socket) through the stack returns what as_handle (as_socket) on the
\* wrapper itself returns, and makes no OS call; and when the operation has
\* been called through layers, the borrowed wrapper made holds the owner's
\* raw id, no duplication or close call was issued, no owner was
\* constructed and the owner is alive.
C24_LayersAreTransparent ==
    /\ \A o \in Owners : \A stack \in LayerStacks :
           /\ (Live(o) /\ owner[o].kind = "OwnedHandle") =>
                  /\ Via_as_handle(stack, owner[o]).view = as_handle(owner[o])
                  /\ Via_as_handle(stack, owner[o]).calls = <<>>
           /\ (Live(o) /\ owner[o].kind = "OwnedSocket") =>
                  /\ Via_as_socket(stack, owner[o]).view = as_socket(owner[o])
                  /\ Via_as_socket(stack, owner[o]).calls = <<>>
    /\ (last.op \in BorrowOps /\ last.via # <<>>) =>
           LET o == last.o IN
           /\ Live(o)
           /\ last.ret = as_raw_handle(owner[o])
           /\ last.calls = <<>>
           /\ last.closes = 0
           /\ last.new = 0
           /\ owner[o].closed = <<>>

\* as_socket has been called through an Arc on an OwnedSocket of an open
\* resource, after an OwnedHandle has been closed.
C24_Witness ==
    /\ last.op = "as_socket"
    /\ last.via = <<"Arc">>
    /\ owner[last.o].raw \in RealIds
    /\ res[owner[last.o].raw] = "open"
    /\ last.ret = as_raw_socket(owner[last.o])
    /\ last.closes = 0
    /\ \E p \in Owners : owner[p].kind = "OwnedHandle" /\ owner[p].st = "dropped"

\* ---------------------------------------------------------------- C25
\* C25: a duplication of a handle that is null succeeds, makes no OS call
\* and returns an OwnedHandle that holds null; a duplication of any other
\* handle calls DuplicateHandle exactly once and returns an error exactly
\* when that call failed.
C25_NullDuplicatesWithoutOsCall ==
    (IsDuplication /\ owner[last.o].kind = "OwnedHandle") =>
        IF owner[last.o].raw = NULL
        THEN /\ last.res = "Ok"
             /\ last.calls = <<>>
             /\ last.failed = {}
             /\ Live(last.new)
             /\ owner[last.new].kind = "OwnedHandle"
             /\ as_raw_handle(owner[last.new]) = NULL
        ELSE /\ last.calls = <<"DuplicateHandle">>
             /\ last.res = "Err" <=> "DuplicateHandle" \in last.failed
             /\ last.res = "Ok" <=> last.failed = {}
             /\ last.res = "Err" => last.new = 0

\* A borrowed handle that is null has been duplicated: the system was not
\* called and a second OwnedHandle that holds null is alive.
C25_Witness ==
    /\ last.op = "try_clone_to_owned"
    /\ owner[last.o].kind = "OwnedHandle"
    /\ owner[last.o].raw = NULL
    /\ last.res = "Ok"
    /\ last.calls = <<>>
    /\ views[last.o] = <<borrow_raw(NULL)>>
    /\ Live(last.new)
    /\ owner[last.new].raw = NULL
    /\ owner[last.new].src = last.o

\* ---------------------------------------------------------------- C26
\* C26 (under SpecSocket): in every step that is a duplication of a socket,
\* each socket the system created during the step is, after it, either open
\* and held by the OwnedSocket returned as Ok, or closed by exactly one
\* close call while the step returned an error; at most one socket is
\* created; when set_no_inherit failed the socket created was closed once;
\* and no close call was issued with the source socket, which stays as it
\* was, as does its owner.
C26_NoSocketLeaks ==
    [][(last'.op \in {"try_clone", "try_clone_to_owned"} /\ last'.res # "panicked") =>
          LET o == last'.o
              src == as_raw_socket(owner[o])
              created == {i \in RealIds : res[i] = "free" /\ res'[i] # "free"}
          IN
          /\ Cardinality(created) <= 1
          /\ \A i \in created :
                 IF last'.res = "Ok"
                 THEN /\ res'[i] = "open"
                      /\ closeCalls'[i] = 0
                      /\ owner'[last'.new].st = "live"
                      /\ owner'[last'.new].raw = i
                 ELSE /\ res'[i] = "closed"
                      /\ closeCalls'[i] = 1
                      /\ last'.closes = 1
          /\ last'.res = "Ok" => created = {last'.ret}
          /\ last'.res = "set_no_inherit" => Cardinality(created) = 1
          /\ created = {} => last'.closes = 0
          /\ closeCalls'[src] = closeCalls[src]
          /\ owner'[o] = owner[o]
          /\ src \in RealIds => res'[src] = res[src]]_vars

\* set_no_inherit has failed on the fallback socket: that socket has been
\* closed by one close call and the source socket is open.
C26_Witness ==
    /\ last.op = "try_clone_to_owned"
    /\ last.res = "set_no_inherit"
    /\ last.closes = 1
    /\ owner[last.o].raw \in RealIds
    /\ res[owner[last.o].raw] = "open"
    /\ closeCalls[owner[last.o].raw] = 0
    /\ \E p \in Owners :
           /\ owner[p].st = "dropped"
           /\ owner[p].raw \in RealIds
           /\ owner[p].closed = <<owner[p].raw>>
           /\ res[owner[p].raw] = "closed"

\* ---------------------------------------------------------------- C27
\* The calls of a duplication that succeeded.
Succeeded(c) == \E i \in DOMAIN last.calls : last.calls[i] = c /\ c \notin last.failed

\* The socket the last duplication created cannot be inherited by a child
\* process: WSASocketW created it with WSA_FLAG_NO_HANDLE_INHERIT, or
\* created it without the flag and SetHandleInformation then cleared
\* HANDLE_FLAG_INHERIT.
NonInheritable ==
    \/ Succeeded("WSASocketW(NO_HANDLE_INHERIT)")
    \/ /\ Succeeded("WSASocketW")
       /\ Succeeded("SetHandleInformation")
       /\ last.calls[Len(last.calls)] = "SetHandleInformation"

\* The last duplication called WSASocketW a second time, without the flag.
TookFallback == \E i \in DOMAIN last.calls : last.calls[i] = "WSASocketW"

\* C27 (under SpecSocket): a socket duplication that returns Ok returns a
\* socket that is non-inheritable; and in a build for UWP a duplication that
\* took the fallback path does not return Ok, and makes no
\* SetHandleInformation call.
C27_ClonesAreNonInheritable ==
    (IsDuplication /\ owner[last.o].kind = "OwnedSocket") =>
        /\ last.res = "Ok" => NonInheritable
        /\ (build.uwp /\ TookFallback) =>
               /\ last.res \in {"last_error", "set_no_inherit"}
               /\ last.new = 0
               /\ ~Succeeded("SetHandleInformation")

\* In a build for the desktop without debug assertions, a duplication has
\* returned Ok with a socket created without the flag, on which
\* set_no_inherit succeeded.
C27_Witness ==
    /\ ~build.uwp
    /\ ~build.debug_assertions
    /\ last.op = "try_clone_to_owned"
    /\ last.res = "Ok"
    /\ TookFallback
    /\ Succeeded("SetHandleInformation")
    /\ Live(last.new)
    /\ owner[last.new].raw \in RealIds

\* ---------------------------------------------------------------- C28
\* The positions of the call c in the calls of the last operation.
CallsOf(c) == {i \in DOMAIN last.calls : last.calls[i] = c}

FallbackErrors == {"WSAEPROTOTYPE", "WSAEINVAL"}

\* What C28 says of the calls r.calls that try_clone_to_owned makes when
\* the system answers with os.
OrderedFor(os, r) ==
    LET has(c) == \E i \in DOMAIN r.calls : r.calls[i] = c IN
    /\ r.calls[1] = "WSADuplicateSocketW"
    /\ ~os.dup => (r.calls = <<"WSADuplicateSocketW">> /\ ~r.ok /\ r.opened = <<>>)
    /\ os.dup => (Len(r.calls) >= 2 /\ r.calls[2] = "WSASocketW(NO_HANDLE_INHERIT)")
    /\ has("WSASocketW") <=>
           (os.dup /\ os.s1 = INVALID_SOCKET /\ os.err1 \in FallbackErrors)
    /\ (os.dup /\ os.s1 = INVALID_SOCKET /\ os.err1 \notin FallbackErrors) =>
           /\ ~r.ok
           /\ r.err = os.err1
           /\ r.calls[Len(r.calls)] = "WSAGetLastError"
           /\ Len(r.calls) = 3
           /\ r.opened = <<>>

\* C28 (under SpecSocket): in a socket duplication WSADuplicateSocketW is
\* the first call, and when it fails it is the only call, an error is
\* returned and no socket is created; the WSASocketW call with the
\* no-inherit flag comes second; the WSASocketW call without the flag is
\* made, once, exactly when the first returned INVALID_SOCKET with
\* WSAEPROTOTYPE or WSAEINVAL, and it comes after the first and the reading
\* of its error; any other error of the first call is returned at once; at
\* most two WSASocketW calls are made.
C28_StepsAreOrdered ==
    (IsDuplication /\ owner[last.o].kind = "OwnedSocket" /\ last.res # "panicked") =>
        /\ \A os \in SocketOutcomes :
               LET r == socket_try_clone_to_owned(as_socket(owner[last.o]), os) IN
               Unasked(os, r.calls) => OrderedFor(os, r)
        /\ CallsOf("WSADuplicateSocketW") = {1}
        /\ "WSADuplicateSocketW" \in last.failed =>
               /\ Len(last.calls) = 1
               /\ last.res = "WSADuplicateSocketW"
               /\ last.new = 0
               /\ last.closes = 0
        /\ CallsOf("WSASocketW(NO_HANDLE_INHERIT)") \subseteq {2}
        /\ CallsOf("WSASocketW") \subseteq {4}
        /\ Cardinality(CallsOf("WSASocketW(NO_HANDLE_INHERIT)") \cup CallsOf("WSASocketW")) <= 2
        /\ CallsOf("WSASocketW") # {} =>
               /\ "WSASocketW(NO_HANDLE_INHERIT)" \in last.failed
               /\ last.calls[3] = "WSAGetLastError"
        /\ last.res \notin FallbackErrors
        /\ last.res = "WSAEMFILE" =>
               /\ last.calls = <<"WSADuplicateSocketW", "WSASocketW(NO_HANDLE_INHERIT)",
                                 "WSAGetLastError">>
               /\ last.new = 0

\* The first WSASocketW has failed with an error other than the two, and the
\* duplication has returned it without a second WSASocketW call.
C28_Witness ==
    /\ last.op = "try_clone_to_owned"
    /\ last.res = "WSAEMFILE"
    /\ last.failed = {"WSASocketW(NO_HANDLE_INHERIT)"}
    /\ CallsOf("WSASocketW") = {}
    /\ Len(last.calls) = 3
    /\ owner[last.o].raw \in RealIds
    /\ FreshId # 0

====
